---------------------------- MODULE Spec2Model ----------------------------
(***************************************************************************)
(* Model of the C AST importer of c2rust: the identifier correspondence    *)
(* table (IdMapper), the conversion engine (ConversionContext::convert and *)
(* visit_node) and the typed AST store (TypedAstContext); and of the       *)
(* template substitution of the refactoring tool (matcher/subst.rs).       *)
(*                                                                         *)
(* Encoding conventions                                                    *)
(*   - Option<id> is an id or NoId; Option<String> is <<>> or <<s>>.       *)
(*   - a NodeType bit mask is the set of the names of its bits, and the    *)
(*     test `a & b != 0` is `a \cap b # {}`.                               *)
(*   - a HashMap is a function whose DOMAIN is the key set.                *)
(*   - a panic sets the field `panic` of the context record; the effects   *)
(*     that precede the panic inside the handler are kept.                 *)
(***************************************************************************)
EXTENDS Integers, Sequences, FiniteSets, TLC

VARIABLES
    ast_nodes,        \* AstContext.ast_nodes : ClangId -> AstNode (input)
    type_nodes,       \* AstContext.type_nodes : ClangId -> TypeNode (input)
    top_nodes,        \* AstContext.top_nodes (input, sequence without repeats)
    file_map,         \* the file-id-to-path map of the input
    template,         \* subst: the template AST fragment `self` of Subst::subst
    bindings,         \* subst: the Bindings, Symbol -> typed AST fragment
    new_id_source,    \* IdMapper.new_id_source
    old_to_new,       \* IdMapper.old_to_new
    new_to_old,       \* IdMapper.new_to_old
    processed_nodes,  \* ConversionContext.processed_nodes
    visit_as,         \* ConversionContext.visit_as (stack, top = last)
    c_types,          \* TypedAstContext.c_types
    c_exprs,          \* TypedAstContext.c_exprs
    c_stmts,          \* TypedAstContext.c_stmts
    c_decls,          \* TypedAstContext.c_decls
    c_decls_top,      \* TypedAstContext.c_decls_top
    c_files,          \* TypedAstContext.c_files
    merged,           \* history: <<old_id, other_old_id, new_id>> of every merge_old that bound
    minted,           \* history: <<new_id, old_id>> of every fresh_id, in order; old_id is
                      \* NoId unless get_or_create_new made the id for old_id
    popped,           \* history: the entries <<node_id, expected_ty>> the loop of convert took
    last,             \* history: what the last iteration of convert did, and for which entry
    status            \* "running", "done", "aborted" or "exhausted"

vars == <<ast_nodes, type_nodes, top_nodes, file_map, template, bindings, new_id_source,
          old_to_new, new_to_old, processed_nodes, visit_as, c_types, c_exprs, c_stmts, c_decls,
          c_decls_top, c_files, merged, minted, popped, last, status>>

inputs == <<ast_nodes, type_nodes, top_nodes, file_map, template, bindings>>

(***************************************************************************)
(* Bounds                                                                  *)
(***************************************************************************)
\* longest worklist the model follows; a longer one ends the run as "exhausted"
MaxWork == 8

\* deepest recursion of resolve_type_id the stack holds; deeper overflows it
MaxDepth == 6

\* MapperSpec: the ids the mapper mints, and the aliases it records
MaxIds == 3

MaxMerges == 2

(***************************************************************************)
(* node_types                                                              *)
(***************************************************************************)
FUNC_TYPE   == {"FUNC_TYPE"}
OTHER_TYPE  == {"OTHER_TYPE"}
TYPE        == FUNC_TYPE \cup OTHER_TYPE
EXPR        == {"EXPR"}
FIELD_DECL  == {"FIELD_DECL"}
VAR_DECL    == {"VAR_DECL"}
RECORD_DECL == {"RECORD_DECL"}
TYPDEF_DECL == {"TYPDEF_DECL"}
OTHER_DECL  == {"OTHER_DECL"}
DECL        == FIELD_DECL \cup VAR_DECL \cup RECORD_DECL \cup TYPDEF_DECL \cup OTHER_DECL
LABEL_STMT  == {"LABEL_STMT"}
OTHER_STMT  == {"OTHER_STMT"}
STMT        == LABEL_STMT \cup OTHER_STMT
ANYTHING    == TYPE \cup EXPR \cup DECL \cup STMT

\* a & b != 0
Meets(a, b) == a \cap b # {}

(***************************************************************************)
(* Options, maps                                                           *)
(***************************************************************************)
NoId == 0

EmptyMap == [x \in {} |-> NoId]

Insert(m, k, v) == [x \in DOMAIN m \cup {k} |-> IF x = k THEN v ELSE m[x]]

Last(s) == s[Len(s)]

Front(s) == SubSeq(s, 1, Len(s) - 1)

(***************************************************************************)
(* The conversion context as a value: the handlers below are functions     *)
(* from context to context, composed in the order of the source's          *)
(* statements.  `ret` is the value returned by the last call.              *)
(***************************************************************************)
CurCtx ==
    [src |-> new_id_source, o2n |-> old_to_new, n2o |-> new_to_old,
     proc |-> processed_nodes, work |-> visit_as,
     types |-> c_types, exprs |-> c_exprs, stmts |-> c_stmts, decls |-> c_decls,
     top |-> c_decls_top, mrg |-> merged, mnt |-> minted, panic |-> FALSE, ret |-> NoId]

Panic(c) == [c EXCEPT !.panic = TRUE]

\* In the handlers below `CHOOSE r \in {(e) : c \in {ctx}} : TRUE` is e with c
\* bound to the value of ctx: the context is computed once, then used.

(***************************************************************************)
(* IdMapper                                                                *)
(***************************************************************************)
\* Variant of fresh_id that returns the next id without advancing the
\* counter; C16_NeverReused fails against it.
fresh_id_stale(ctx) ==
    CHOOSE r \in {(
        [c EXCEPT !.ret = c.src + 1, !.mnt = Append(c.mnt, <<c.src + 1, NoId>>)]
        ) : c \in {ctx}} : TRUE

fresh_id(ctx) ==
    CHOOSE r \in {(
        [c EXCEPT !.src = c.src + 1, !.ret = c.src + 1,
                  !.mnt = Append(c.mnt, <<c.src + 1, NoId>>)]
        ) : c \in {ctx}} : TRUE

get_new(ctx, old_id) ==
    CHOOSE r \in {(
        IF old_id \in DOMAIN c.o2n THEN c.o2n[old_id] ELSE NoId
        ) : c \in {ctx}} : TRUE

get_or_create_new(ctx, old_id) ==
    CHOOSE r \in {(
        IF get_new(c, old_id) # NoId
        THEN [c EXCEPT !.ret = get_new(c, old_id)]
        ELSE LET c1 == fresh_id(c)
             IN  [c1 EXCEPT !.o2n = Insert(c1.o2n, old_id, c1.ret),
                            !.mnt[Len(c1.mnt)] = <<c1.ret, old_id>>]
        ) : c \in {ctx}} : TRUE

get_old(ctx, new_id) ==
    CHOOSE r \in {(
        IF new_id \in DOMAIN c.n2o THEN c.n2o[new_id] ELSE NoId
        ) : c \in {ctx}} : TRUE

\* Variant of merge_old that makes an id for an unknown old_id and binds both
\* foreign ids to it; C15_MergeUnknown fails against it.
merge_old_creating(ctx, old_id, other_old_id) ==
    CHOOSE r \in {(
        LET c1 == get_or_create_new(c, old_id)
        IN  [c1 EXCEPT !.o2n = Insert(c1.o2n, other_old_id, c1.ret),
                       !.mrg = c1.mrg \cup {<<old_id, other_old_id, c1.ret>>}]
        ) : c \in {ctx}} : TRUE

merge_old(ctx, old_id, other_old_id) ==
    CHOOSE r \in {(
        IF get_new(c, old_id) # NoId
        THEN [c EXCEPT !.o2n = Insert(c.o2n, other_old_id, get_new(c, old_id)),
                       !.mrg = c.mrg \cup {<<old_id, other_old_id, get_new(c, old_id)>>},
                       !.ret = get_new(c, old_id)]
        ELSE [c EXCEPT !.ret = NoId]
        ) : c \in {ctx}} : TRUE

(***************************************************************************)
(* located / not_located / qualifiers                                      *)
(***************************************************************************)
NoLoc == <<>>

located(node, t) ==
    [loc |-> <<[line |-> node.line, column |-> node.column, fileid |-> node.fileid]>>,
     kind |-> t]

not_located(t) == [loc |-> NoLoc, kind |-> t]

qualifiers(ty_node) ==
    [is_const |-> ty_node.constant, is_restrict |-> FALSE, is_volatile |-> FALSE]

(***************************************************************************)
(* Extra fields of the foreign nodes: a payload is [t |-> shape, v |-> _]  *)
(* with shape one of "str", "u64", "f64", "bool", "array".  extras[i] of   *)
(* the source is Extra(n, i); indexing past the end panics.                *)
(***************************************************************************)
HasExtra(n, i) == i + 1 <= Len(n.extras)

Extra(n, i) == n.extras[i + 1]

expect_ok(x, shape) == x.t = shape

\* extras[i] is present and has the wanted shape
ExtraIs(n, i, shape) == HasExtra(n, i) /\ expect_ok(Extra(n, i), shape)

HasChild(n, i) == i + 1 <= Len(n.children)

Child(n, i) == n.children[i + 1]

\* children[i] is present and is Some(_)
ChildIsSome(n, i) == HasChild(n, i) /\ Child(n, i) # NoId

(***************************************************************************)
(* ConversionContext: visit_* and add_*                                    *)
(***************************************************************************)
visit_node_type(ctx, node_id, node_ty) ==
    CHOOSE r \in {(
        get_or_create_new([c EXCEPT !.work = Append(c.work, <<node_id, node_ty>>)], node_id)
        ) : c \in {ctx}} : TRUE

visit_type(ctx, node_id) ==
    CHOOSE r \in {(
        visit_node_type(c, node_id, TYPE)
        ) : c \in {ctx}} : TRUE

visit_stmt(ctx, node_id) ==
    CHOOSE r \in {(
        visit_node_type(c, node_id, STMT)
        ) : c \in {ctx}} : TRUE

visit_expr(ctx, node_id) ==
    CHOOSE r \in {(
        visit_node_type(c, node_id, EXPR)
        ) : c \in {ctx}} : TRUE

visit_decl(ctx, node_id) ==
    CHOOSE r \in {(
        visit_node_type(c, node_id, DECL)
        ) : c \in {ctx}} : TRUE

add_type(ctx, id, typ) ==
    CHOOSE r \in {(
        [c EXCEPT !.types = Insert(c.types, id, typ)]
        ) : c \in {ctx}} : TRUE

add_stmt(ctx, id, stmt) ==
    CHOOSE r \in {(
        [c EXCEPT !.stmts = Insert(c.stmts, id, stmt)]
        ) : c \in {ctx}} : TRUE

add_expr(ctx, id, expr) ==
    CHOOSE r \in {(
        [c EXCEPT !.exprs = Insert(c.exprs, id, expr)]
        ) : c \in {ctx}} : TRUE

add_decl(ctx, id, decl) ==
    CHOOSE r \in {(
        [c EXCEPT !.decls = Insert(c.decls, id, decl)]
        ) : c \in {ctx}} : TRUE

mark_processed(ctx, id, ty) ==
    CHOOSE r \in {(
        [c EXCEPT !.proc = Insert(c.proc, id, ty)]
        ) : c \in {ctx}} : TRUE

\* Variant of expr_possibly_as_stmt that stores the expression at new_id
\* instead of a fresh id; C2_NamespaceDisjoint fails against it.
expr_possibly_as_stmt_same_id(ctx, expected_ty, new_id, node, expr) ==
    CHOOSE r \in {(
        IF Meets(expected_ty, STMT)
        THEN LET c2 == mark_processed(add_expr(c, new_id, located(node, expr)), new_id, EXPR)
                 semi_stmt == [k |-> "Expr", expr |-> new_id]
             IN  mark_processed(add_stmt(c2, new_id, located(node, semi_stmt)), new_id, STMT)
        ELSE IF Meets(expected_ty, EXPR)
        THEN mark_processed(add_expr(c, new_id, located(node, expr)), new_id, EXPR)
        ELSE Panic(c)
        ) : c \in {ctx}} : TRUE

\* Variant of expr_possibly_as_stmt without the lifting: the expression is
\* stored at new_id under either mask; C4_Lifting fails against it.
expr_possibly_as_stmt_unlifted(ctx, expected_ty, new_id, node, expr) ==
    CHOOSE r \in {(
        IF Meets(expected_ty, STMT \cup EXPR)
        THEN mark_processed(add_expr(c, new_id, located(node, expr)), new_id, EXPR)
        ELSE Panic(c)
        ) : c \in {ctx}} : TRUE

\* Variant of expr_possibly_as_stmt that lifts under the expression mask too;
\* C32_PlainExpression fails against it.
expr_possibly_as_stmt_always_lifted(ctx, expected_ty, new_id, node, expr) ==
    CHOOSE r \in {(
        IF Meets(expected_ty, STMT \cup EXPR)
        THEN LET c1 == fresh_id(c)
                 new_expr_id == c1.ret
                 c2 == mark_processed(add_expr(c1, new_expr_id, located(node, expr)),
                                      new_expr_id, EXPR)
                 semi_stmt == [k |-> "Expr", expr |-> new_expr_id]
             IN  mark_processed(add_stmt(c2, new_id, located(node, semi_stmt)), new_id, STMT)
        ELSE Panic(c)
        ) : c \in {ctx}} : TRUE

expr_possibly_as_stmt(ctx, expected_ty, new_id, node, expr) ==
    CHOOSE r \in {(
        IF Meets(expected_ty, STMT)
        THEN LET c1 == fresh_id(c)
                 new_expr_id == c1.ret
                 c2 == mark_processed(add_expr(c1, new_expr_id, located(node, expr)),
                                      new_expr_id, EXPR)
                 semi_stmt == [k |-> "Expr", expr |-> new_expr_id]
             IN  mark_processed(add_stmt(c2, new_id, located(node, semi_stmt)), new_id, STMT)
        ELSE IF Meets(expected_ty, EXPR)
        THEN mark_processed(add_expr(c, new_id, located(node, expr)), new_id, EXPR)
        ELSE Panic(c)
        ) : c \in {ctx}} : TRUE

\* Variant of visit_all that collects the new ids in reverse;
\* C29_OrderedLists fails against it.
RECURSIVE visit_all_reversed(_, _, _, _)
visit_all_reversed(ctx, ids, node_ty, acc) ==
    CHOOSE r \in {(
        IF ids = <<>> THEN [c EXCEPT !.ret = acc]
        ELSE IF Head(ids) = NoId THEN Panic(c)
        ELSE LET c1 == visit_node_type(c, Head(ids), node_ty)
             IN  visit_all_reversed(c1, Tail(ids), node_ty, <<c1.ret>> \o acc)
        ) : c \in {ctx}} : TRUE

\* the closure `|id| { id.expect(..); self.visit_node_type(&id, ty) }` mapped
\* over a list of children, left to right; ret is the list of new ids
RECURSIVE visit_all(_, _, _, _)
visit_all(ctx, ids, node_ty, acc) ==
    CHOOSE r \in {(
        IF ids = <<>> THEN [c EXCEPT !.ret = acc]
        ELSE IF Head(ids) = NoId THEN Panic(c)
        ELSE LET c1 == visit_node_type(c, Head(ids), node_ty)
             IN  visit_all(c1, Tail(ids), node_ty, Append(acc, c1.ret))
        ) : c \in {ctx}} : TRUE

\* `opt.map(|id| self.visit_node_type(&id, ty))`
visit_opt(ctx, opt_id, node_ty) ==
    CHOOSE r \in {(
        IF opt_id = NoId THEN [c EXCEPT !.ret = NoId] ELSE visit_node_type(c, opt_id, node_ty)
        ) : c \in {ctx}} : TRUE

(***************************************************************************)
(* visit_node, type branch (expected_ty & TYPE != 0)                       *)
(***************************************************************************)
PrimTypeTags ==
    {"TagBool", "TagVoid", "TagChar", "TagInt", "TagShort", "TagLong", "TagLongLong",
     "TagUInt", "TagUChar", "TagSChar", "TagUShort", "TagULong", "TagULongLong",
     "TagDouble", "TagLongDouble", "TagFloat"}

\* TypeTag::TagX => CTypeKind::X for the builtin types
PrimTypeKind(tag) ==
    CASE tag = "TagBool"       -> "Bool"
      [] tag = "TagVoid"       -> "Void"
      [] tag = "TagChar"       -> "Char"
      [] tag = "TagInt"        -> "Int"
      [] tag = "TagShort"      -> "Short"
      [] tag = "TagLong"       -> "Long"
      [] tag = "TagLongLong"   -> "LongLong"
      [] tag = "TagUInt"       -> "UInt"
      [] tag = "TagUChar"      -> "UChar"
      [] tag = "TagSChar"      -> "SChar"
      [] tag = "TagUShort"     -> "UShort"
      [] tag = "TagULong"      -> "ULong"
      [] tag = "TagULongLong"  -> "ULongLong"
      [] tag = "TagDouble"     -> "Double"
      [] tag = "TagLongDouble" -> "LongDouble"
      [] tag = "TagFloat"      -> "Float"

\* the arms TagTypeOfType, TagDecayedType, TagElaboratedType: one type operand
WrapTypeTags == {"TagTypeOfType", "TagDecayedType", "TagElaboratedType"}

WrapTypeKind(tag) ==
    CASE tag = "TagTypeOfType"     -> "TypeOf"
      [] tag = "TagDecayedType"    -> "Decayed"
      [] tag = "TagElaboratedType" -> "Elaborated"

visit_prim_type(ctx, ty_node, new_id) ==
    CHOOSE r \in {(
        mark_processed(add_type(c, new_id, not_located([k |-> PrimTypeKind(ty_node.tag)])),
                       new_id, OTHER_TYPE)
        ) : c \in {ctx}} : TRUE

visit_pointer_type(ctx, ty_node, new_id) ==
    CHOOSE r \in {(
        IF ~ExtraIs(ty_node, 0, "u64") THEN Panic(c)
        ELSE LET c1 == visit_type(c, Extra(ty_node, 0).v)
                 pointed_ty == [qualifiers |-> qualifiers(ty_node), ctype |-> c1.ret]
             IN  mark_processed(add_type(c1, new_id,
                                         not_located([k |-> "Pointer", pointee |-> pointed_ty])),
                                new_id, OTHER_TYPE)
        ) : c \in {ctx}} : TRUE

visit_record_type(ctx, ty_node, new_id) ==
    CHOOSE r \in {(
        IF ~ExtraIs(ty_node, 0, "u64") THEN Panic(c)
        ELSE LET c1 == visit_node_type(c, Extra(ty_node, 0).v, RECORD_DECL)
             IN  mark_processed(add_type(c1, new_id,
                                         not_located([k |-> "Record", decl |-> c1.ret])),
                                new_id, OTHER_TYPE)
        ) : c \in {ctx}} : TRUE

visit_typedef_type(ctx, ty_node, new_id) ==
    CHOOSE r \in {(
        IF ~ExtraIs(ty_node, 0, "u64") THEN Panic(c)
        ELSE LET c1 == visit_node_type(c, Extra(ty_node, 0).v, TYPDEF_DECL)
             IN  mark_processed(add_type(c1, new_id,
                                         not_located([k |-> "Typedef", decl |-> c1.ret])),
                                new_id, OTHER_TYPE)
        ) : c \in {ctx}} : TRUE

visit_wrap_type(ctx, ty_node, new_id) ==
    CHOOSE r \in {(
        IF ~ExtraIs(ty_node, 0, "u64") THEN Panic(c)
        ELSE LET c1 == visit_type(c, Extra(ty_node, 0).v)
             IN  mark_processed(add_type(c1, new_id,
                                         not_located([k |-> WrapTypeKind(ty_node.tag),
                                                      ty |-> c1.ret])),
                                new_id, OTHER_TYPE)
        ) : c \in {ctx}} : TRUE

\* the closure mapped over the argument list of a function type
RECURSIVE visit_fn_args(_, _, _)
visit_fn_args(ctx, cbors, acc) ==
    CHOOSE r \in {(
        IF cbors = <<>> THEN [c EXCEPT !.ret = acc]
        ELSE IF ~expect_ok(Head(cbors), "u64") THEN Panic(c)
        ELSE IF Head(cbors).v \notin DOMAIN type_nodes THEN Panic(c)
        ELSE LET c1 == visit_type(c, Head(cbors).v)
                 q  == [qualifiers |-> qualifiers(type_nodes[Head(cbors).v]), ctype |-> c1.ret]
             IN  visit_fn_args(c1, Tail(cbors), Append(acc, q))
        ) : c \in {ctx}} : TRUE

\* Variant of visit_function_type that keeps the return type in the parameter
\* list; C26_FunctionTypeSplit fails against it.
visit_function_type_no_split(ctx, ty_node, new_id) ==
    CHOOSE r \in {(
        IF ~ExtraIs(ty_node, 0, "array") THEN Panic(c)
        ELSE LET c1 == visit_fn_args(c, Extra(ty_node, 0).v, <<>>)
             IN  IF c1.panic THEN c1
                 ELSE IF c1.ret = <<>> THEN Panic(c1)
                 ELSE mark_processed(
                          add_type(c1, new_id,
                                   not_located([k |-> "Function", ret |-> Head(c1.ret),
                                                params |-> c1.ret])),
                          new_id, FUNC_TYPE)
        ) : c \in {ctx}} : TRUE

visit_function_type(ctx, ty_node, new_id) ==
    CHOOSE r \in {(
        IF ~ExtraIs(ty_node, 0, "array") THEN Panic(c)
        ELSE LET c1 == visit_fn_args(c, Extra(ty_node, 0).v, <<>>)
             IN  IF c1.panic THEN c1
                 ELSE IF c1.ret = <<>> THEN Panic(c1)
                 ELSE mark_processed(
                          add_type(c1, new_id,
                                   not_located([k |-> "Function", ret |-> Head(c1.ret),
                                                params |-> Tail(c1.ret)])),
                          new_id, FUNC_TYPE)
        ) : c \in {ctx}} : TRUE

visit_node_as_type(ctx, node_id, new_id, expected_ty) ==
    CHOOSE r \in {(
        IF node_id \notin DOMAIN type_nodes THEN Panic(c)
        ELSE LET ty_node == type_nodes[node_id]
                 tag == ty_node.tag
             IN  CASE tag \in PrimTypeTags /\ Meets(expected_ty, OTHER_TYPE) ->
                          visit_prim_type(c, ty_node, new_id)
                   [] tag = "TagPointer" /\ Meets(expected_ty, OTHER_TYPE) ->
                          visit_pointer_type(c, ty_node, new_id)
                   [] tag = "TagRecordType" /\ Meets(expected_ty, OTHER_TYPE) ->
                          visit_record_type(c, ty_node, new_id)
                   [] tag = "TagFunctionType" /\ Meets(expected_ty, FUNC_TYPE) ->
                          visit_function_type(c, ty_node, new_id)
                   [] tag = "TagTypedefType" /\ Meets(expected_ty, OTHER_TYPE) ->
                          visit_typedef_type(c, ty_node, new_id)
                   [] tag \in WrapTypeTags /\ Meets(expected_ty, OTHER_TYPE) ->
                          visit_wrap_type(c, ty_node, new_id)
                   [] OTHER -> Panic(c)
        ) : c \in {ctx}} : TRUE

(***************************************************************************)
(* visit_node, AST branch.  The helpers below are the recurring statement  *)
(* forms of the builders; each is skipped once the handler has panicked.   *)
(***************************************************************************)
\* Variant of req_child that takes an absent child as None; C28_RequiredChildren
\* fails against it.
req_child_lenient(ctx, node, i, node_ty) ==
    CHOOSE r \in {(
        IF c.panic THEN c
        ELSE IF ~HasChild(node, i) THEN Panic(c)
        ELSE visit_opt(c, Child(node, i), node_ty)
        ) : c \in {ctx}} : TRUE

\* let x_old = node.children[i].expect(..); let x = self.visit_node_type(&x_old, ty);
req_child(ctx, node, i, node_ty) ==
    CHOOSE r \in {(
        IF c.panic THEN c
        ELSE IF ~ChildIsSome(node, i) THEN Panic(c)
        ELSE visit_node_type(c, Child(node, i), node_ty)
        ) : c \in {ctx}} : TRUE

\* Variant of opt_child that expects the child as req_child does;
\* C27_OptionalChildren fails against it.
opt_child_required(ctx, node, i, node_ty) ==
    req_child(ctx, node, i, node_ty)

\* let x = node.children[i].map(|id| self.visit_node_type(&id, ty));
opt_child(ctx, node, i, node_ty) ==
    CHOOSE r \in {(
        IF c.panic THEN c
        ELSE IF ~HasChild(node, i) THEN Panic(c)
        ELSE visit_opt(c, Child(node, i), node_ty)
        ) : c \in {ctx}} : TRUE

\* let ty_old = node.type_id.expect(..); let ty = self.visit_node_type(&ty_old, node_ty);
req_type(ctx, node, node_ty) ==
    CHOOSE r \in {(
        IF c.panic THEN c
        ELSE IF node.type_id = NoId THEN Panic(c)
        ELSE visit_node_type(c, node.type_id, node_ty)
        ) : c \in {ctx}} : TRUE

\* expect_X(&node.extras[i]).expect(..)
req_extra(ctx, node, i, shape) ==
    CHOOSE r \in {(
        IF c.panic THEN c
        ELSE IF ~ExtraIs(node, i, shape) THEN Panic(c)
        ELSE [c EXCEPT !.ret = Extra(node, i).v]
        ) : c \in {ctx}} : TRUE

\* children.iter().map(|id| { id.expect(..); visit_node_type(..) }).collect()
all_children(ctx, ids, node_ty) ==
    CHOOSE r \in {(
        IF c.panic THEN c ELSE visit_all(c, ids, node_ty, <<>>)
        ) : c \in {ctx}} : TRUE

\* add_stmt followed by processed_nodes.insert
store_stmt(ctx, new_id, node, stmt, ty) ==
    CHOOSE r \in {(
        IF c.panic THEN c ELSE mark_processed(add_stmt(c, new_id, located(node, stmt)), new_id, ty)
        ) : c \in {ctx}} : TRUE

\* add_stmt alone (TagNullStmt, TagForStmt, TagWhileStmt, TagDoStmt)
store_stmt_unrecorded(ctx, new_id, node, stmt) ==
    CHOOSE r \in {(
        IF c.panic THEN c ELSE add_stmt(c, new_id, located(node, stmt))
        ) : c \in {ctx}} : TRUE

store_decl(ctx, new_id, node, decl, ty) ==
    CHOOSE r \in {(
        IF c.panic THEN c ELSE mark_processed(add_decl(c, new_id, located(node, decl)), new_id, ty)
        ) : c \in {ctx}} : TRUE

store_expr(ctx, expected_ty, new_id, node, expr) ==
    CHOOSE r \in {(
        IF c.panic THEN c ELSE expr_possibly_as_stmt(c, expected_ty, new_id, node, expr)
        ) : c \in {ctx}} : TRUE

(* Statements *)
visit_compound_stmt(ctx, node, new_id) ==
    CHOOSE r \in {(
        LET c1 == all_children(c, node.children, STMT)
        IN  store_stmt(c1, new_id, node, [k |-> "Compound", stmts |-> c1.ret], OTHER_STMT)
        ) : c \in {ctx}} : TRUE

visit_decl_stmt(ctx, node, new_id) ==
    CHOOSE r \in {(
        LET c1 == all_children(c, node.children, DECL)
        IN  store_stmt(c1, new_id, node, [k |-> "Decls", decls |-> c1.ret], OTHER_STMT)
        ) : c \in {ctx}} : TRUE

\* Variant of visit_return_stmt that drops the returned expression;
\* C18_MainScenario fails against it.
visit_return_stmt_void(ctx, node, new_id) ==
    CHOOSE r \in {(
        store_stmt(c, new_id, node, [k |-> "Return", expr |-> NoId], OTHER_STMT)
        ) : c \in {ctx}} : TRUE

visit_return_stmt(ctx, node, new_id) ==
    CHOOSE r \in {(
        LET c1 == opt_child(c, node, 0, EXPR)
        IN  store_stmt(c1, new_id, node, [k |-> "Return", expr |-> c1.ret], OTHER_STMT)
        ) : c \in {ctx}} : TRUE

visit_if_stmt(ctx, node, new_id) ==
    CHOOSE r \in {(
        LET c1 == req_child(c, node, 0, EXPR)
            c2 == req_child(c1, node, 1, STMT)
            c3 == opt_child(c2, node, 2, STMT)
        IN  store_stmt(c3, new_id, node,
                       [k |-> "If", scrutinee |-> c1.ret, true_variant |-> c2.ret,
                        false_variant |-> c3.ret], OTHER_STMT)
        ) : c \in {ctx}} : TRUE

visit_goto_stmt(ctx, node, new_id) ==
    CHOOSE r \in {(
        LET c1 == req_child(c, node, 0, LABEL_STMT)
        IN  store_stmt(c1, new_id, node, [k |-> "Goto", label |-> c1.ret], OTHER_STMT)
        ) : c \in {ctx}} : TRUE

visit_null_stmt(ctx, node, new_id) ==
    CHOOSE r \in {(
        store_stmt_unrecorded(c, new_id, node, [k |-> "Empty"])
        ) : c \in {ctx}} : TRUE

visit_for_stmt(ctx, node, new_id) ==
    CHOOSE r \in {(
        LET c1 == opt_child(c, node, 0, STMT)
            c2 == opt_child(c1, node, 1, EXPR)
            c3 == opt_child(c2, node, 2, EXPR)
            c4 == req_child(c3, node, 3, STMT)
        IN  store_stmt_unrecorded(c4, new_id, node,
                       [k |-> "ForLoop", init |-> c1.ret, condition |-> c2.ret,
                        increment |-> c3.ret, body |-> c4.ret])
        ) : c \in {ctx}} : TRUE

visit_while_stmt(ctx, node, new_id) ==
    CHOOSE r \in {(
        LET c1 == req_child(c, node, 0, EXPR)
            c2 == req_child(c1, node, 1, STMT)
        IN  store_stmt_unrecorded(c2, new_id, node,
                       [k |-> "While", condition |-> c1.ret, body |-> c2.ret])
        ) : c \in {ctx}} : TRUE

visit_do_stmt(ctx, node, new_id) ==
    CHOOSE r \in {(
        LET c1 == req_child(c, node, 0, STMT)
            c2 == req_child(c1, node, 1, EXPR)
        IN  store_stmt_unrecorded(c2, new_id, node,
                       [k |-> "DoWhile", body |-> c1.ret, condition |-> c2.ret])
        ) : c \in {ctx}} : TRUE

visit_label_stmt(ctx, node, new_id) ==
    CHOOSE r \in {(
        LET c1 == req_child(c, node, 0, STMT)
        IN  store_stmt(c1, new_id, node, [k |-> "Label", stmt |-> c1.ret], LABEL_STMT)
        ) : c \in {ctx}} : TRUE

(* Expressions *)
visit_paren_expr(ctx, node, node_id, expected_ty) ==
    CHOOSE r \in {(
        IF ~ChildIsSome(node, 0) THEN Panic(c)
        ELSE visit_node_type(merge_old(c, node_id, Child(node, 0)), Child(node, 0), expected_ty)
        ) : c \in {ctx}} : TRUE

LiteralTags == {"TagIntegerLiteral", "TagCharacterLiteral", "TagFloatingLiteral"}

LiteralShape(tag) == IF tag = "TagFloatingLiteral" THEN "f64" ELSE "u64"

LiteralKind(tag) ==
    CASE tag = "TagIntegerLiteral"   -> "Integer"
      [] tag = "TagCharacterLiteral" -> "Character"
      [] tag = "TagFloatingLiteral"  -> "Floating"

visit_literal(ctx, node, new_id, expected_ty) ==
    CHOOSE r \in {(
        LET c1 == req_extra(c, node, 0, LiteralShape(node.tag))
            c2 == req_type(c1, node, TYPE)
        IN  store_expr(c2, expected_ty, new_id, node,
                       [k |-> "Literal", ty |-> c2.ret,
                        lit |-> [k |-> LiteralKind(node.tag), v |-> c1.ret]])
        ) : c \in {ctx}} : TRUE

UnOpStrings == {"&", "*", "+", "-", "~", "!", "++", "--"}

UnOpOf(str) ==
    CASE str = "&"  -> "AddressOf"
      [] str = "*"  -> "Deref"
      [] str = "+"  -> "Plus"
      [] str = "-"  -> "Negate"
      [] str = "~"  -> "Complement"
      [] str = "!"  -> "Not"
      [] str = "++" -> "Increment"
      [] str = "--" -> "Decrement"

\* Variant of visit_unary_operator that decodes an unknown operator string as
\* Plus instead of panicking; C34_OperatorDecoding fails against it.
visit_unary_operator_lenient(ctx, node, new_id, expected_ty) ==
    CHOOSE r \in {(
        LET c0 == req_extra(c, node, 0, "str")
            c2 == req_child(c0, node, 0, EXPR)
            c3 == req_type(c2, node, TYPE)
            c4 == req_extra(c3, node, 1, "bool")
        IN  store_expr(c4, expected_ty, new_id, node,
                       [k |-> "Unary", ty |-> c3.ret,
                        op |-> IF c0.ret \in UnOpStrings THEN UnOpOf(c0.ret) ELSE "Plus",
                        prefix |-> c4.ret, operand |-> c2.ret])
        ) : c \in {ctx}} : TRUE

visit_unary_operator(ctx, node, new_id, expected_ty) ==
    CHOOSE r \in {(
        LET c0 == req_extra(c, node, 0, "str")
            c1 == IF ~c0.panic /\ c0.ret \notin UnOpStrings THEN Panic(c0) ELSE c0
            c2 == req_child(c1, node, 0, EXPR)
            c3 == req_type(c2, node, TYPE)
            c4 == req_extra(c3, node, 1, "bool")
        IN  store_expr(c4, expected_ty, new_id, node,
                       [k |-> "Unary", ty |-> c3.ret, op |-> UnOpOf(c0.ret),
                        prefix |-> c4.ret, operand |-> c2.ret])
        ) : c \in {ctx}} : TRUE

visit_implicit_cast(ctx, node, new_id, expected_ty) ==
    CHOOSE r \in {(
        LET c1 == req_child(c, node, 0, EXPR)
            c2 == req_type(c1, node, TYPE)
        IN  store_expr(c2, expected_ty, new_id, node,
                       [k |-> "ImplicitCast", ty |-> c2.ret, expr |-> c1.ret])
        ) : c \in {ctx}} : TRUE

visit_call_expr(ctx, node, new_id, expected_ty) ==
    CHOOSE r \in {(
        LET c1 == req_child(c, node, 0, EXPR)
            c2 == all_children(c1, IF node.children = <<>> THEN <<>> ELSE Tail(node.children), EXPR)
            c3 == req_type(c2, node, TYPE)
        IN  store_expr(c3, expected_ty, new_id, node,
                       [k |-> "Call", ty |-> c3.ret, func |-> c1.ret, args |-> c2.ret])
        ) : c \in {ctx}} : TRUE

visit_member_expr(ctx, node, new_id, expected_ty) ==
    CHOOSE r \in {(
        LET c1 == req_child(c, node, 0, EXPR)
            c2 == req_child(c1, node, 1, DECL)
            c3 == req_type(c2, node, TYPE)
        IN  store_expr(c3, expected_ty, new_id, node,
                       [k |-> "Member", ty |-> c3.ret, base |-> c1.ret, field |-> c2.ret])
        ) : c \in {ctx}} : TRUE

BinOpStrings ==
    {"*", "/", "%", "+", "-", "<<", ">>", "<", ">", "<=", ">=", "==", "!=", "&", "^", "|",
     "&&", "||", "+=", "-=", "*=", "/=", "%=", "^=", "<<=", ">>=", "|=", "&=", "=", ","}

BinOpOf(str) ==
    CASE str = "*"   -> "Multiply"
      [] str = "/"   -> "Divide"
      [] str = "%"   -> "Modulus"
      [] str = "+"   -> "Add"
      [] str = "-"   -> "Subtract"
      [] str = "<<"  -> "ShiftLeft"
      [] str = ">>"  -> "ShiftRight"
      [] str = "<"   -> "Less"
      [] str = ">"   -> "Greater"
      [] str = "<="  -> "LessEqual"
      [] str = ">="  -> "GreaterEqual"
      [] str = "=="  -> "EqualEqual"
      [] str = "!="  -> "NotEqual"
      [] str = "&"   -> "BitAnd"
      [] str = "^"   -> "BitXor"
      [] str = "|"   -> "BitOr"
      [] str = "&&"  -> "And"
      [] str = "||"  -> "Or"
      [] str = "+="  -> "AssignAdd"
      [] str = "-="  -> "AssignSubtract"
      [] str = "*="  -> "AssignMultiply"
      [] str = "/="  -> "AssignDivide"
      [] str = "%="  -> "AssignModulus"
      [] str = "^="  -> "AssignBitXor"
      [] str = "<<=" -> "AssignShiftLeft"
      [] str = ">>=" -> "AssignShiftRight"
      [] str = "|="  -> "AssignBitOr"
      [] str = "&="  -> "AssignBitAnd"
      [] str = "="   -> "Assign"
      [] str = ","   -> "Comma"

visit_binary_operator(ctx, node, new_id, expected_ty) ==
    CHOOSE r \in {(
        LET c0 == req_extra(c, node, 0, "str")
            c1 == IF ~c0.panic /\ c0.ret \notin BinOpStrings THEN Panic(c0) ELSE c0
            c2 == req_child(c1, node, 0, EXPR)
            c3 == req_child(c2, node, 1, EXPR)
            c4 == req_type(c3, node, TYPE)
        IN  store_expr(c4, expected_ty, new_id, node,
                       [k |-> "Binary", ty |-> c4.ret, op |-> BinOpOf(c0.ret),
                        lhs |-> c2.ret, rhs |-> c3.ret])
        ) : c \in {ctx}} : TRUE

visit_decl_ref_expr(ctx, node, new_id, expected_ty) ==
    CHOOSE r \in {(
        LET c1 == req_child(c, node, 0, DECL)
            c2 == req_type(c1, node, TYPE)
        IN  store_expr(c2, expected_ty, new_id, node,
                       [k |-> "DeclRef", ty |-> c2.ret, decl |-> c1.ret])
        ) : c \in {ctx}} : TRUE

visit_array_subscript_expr(ctx, node, new_id, expected_ty) ==
    CHOOSE r \in {(
        LET c1 == req_child(c, node, 0, EXPR)
            c2 == req_child(c1, node, 1, EXPR)
            c3 == req_type(c2, node, TYPE)
        IN  store_expr(c3, expected_ty, new_id, node,
                       [k |-> "ArraySubscript", ty |-> c3.ret, lhs |-> c1.ret, rhs |-> c2.ret])
        ) : c \in {ctx}} : TRUE

(* Declarations *)
\* Variant of visit_function_decl that takes the first child as the body and the
\* rest as the parameters; C30_FunctionLayout fails against it.
visit_function_decl_body_first(ctx, node, new_id) ==
    CHOOSE r \in {(
        LET c0 == req_extra(c, node, 0, "str")
            c1 == req_type(c0, node, FUNC_TYPE)
            c2 == IF ~c1.panic /\ node.children = <<>> THEN Panic(c1) ELSE c1
            c3 == IF c2.panic THEN c2
                  ELSE IF Head(node.children) = NoId THEN Panic(c2)
                  ELSE visit_stmt(c2, Head(node.children))
            c4 == all_children(c3, Tail(node.children), VAR_DECL)
        IN  store_decl(c4, new_id, node,
                       [k |-> "Function", typ |-> c1.ret, name |-> c0.ret,
                        parameters |-> c4.ret, body |-> c3.ret], OTHER_DECL)
        ) : c \in {ctx}} : TRUE

visit_function_decl(ctx, node, new_id) ==
    CHOOSE r \in {(
        LET c0 == req_extra(c, node, 0, "str")
            c1 == req_type(c0, node, FUNC_TYPE)
            c2 == IF ~c1.panic /\ node.children = <<>> THEN Panic(c1) ELSE c1
            c3 == IF c2.panic THEN c2
                  ELSE IF Last(node.children) = NoId THEN Panic(c2)
                  ELSE visit_stmt(c2, Last(node.children))
            c4 == all_children(c3, Front(node.children), VAR_DECL)
        IN  store_decl(c4, new_id, node,
                       [k |-> "Function", typ |-> c1.ret, name |-> c0.ret,
                        parameters |-> c4.ret, body |-> c3.ret], OTHER_DECL)
        ) : c \in {ctx}} : TRUE

visit_typedef_decl(ctx, node, new_id) ==
    CHOOSE r \in {(
        LET c0 == req_extra(c, node, 0, "str")
            c1 == req_type(c0, node, TYPE)
        IN  store_decl(c1, new_id, node,
                       [k |-> "Typedef", name |-> c0.ret, typ |-> c1.ret], TYPDEF_DECL)
        ) : c \in {ctx}} : TRUE

visit_var_decl(ctx, node, new_id) ==
    CHOOSE r \in {(
        LET c0 == req_extra(c, node, 0, "str")
            c1 == opt_child(c0, node, 0, EXPR)
            c2 == IF ~c1.panic /\ (node.type_id = NoId \/ node.type_id \notin DOMAIN type_nodes)
                  THEN Panic(c1) ELSE c1
            c3 == req_type(c2, node, TYPE)
        IN  store_decl(c3, new_id, node,
                       [k |-> "Variable", ident |-> c0.ret, initializer |-> c1.ret,
                        typ |-> [qualifiers |-> qualifiers(type_nodes[node.type_id]),
                                 ctype |-> c3.ret]], VAR_DECL)
        ) : c \in {ctx}} : TRUE

visit_record_decl(ctx, node, new_id) ==
    CHOOSE r \in {(
        LET c0 == IF ~HasExtra(node, 0) THEN Panic(c) ELSE c
            name == IF expect_ok(Extra(node, 0), "str") THEN <<Extra(node, 0).v>> ELSE <<>>
            c1 == all_children(c0, node.children, FIELD_DECL)
        IN  store_decl(c1, new_id, node,
                       [k |-> "Record", name |-> name, fields |-> c1.ret], RECORD_DECL)
        ) : c \in {ctx}} : TRUE

visit_field_decl(ctx, node, new_id) ==
    CHOOSE r \in {(
        LET c0 == req_extra(c, node, 0, "str")
        IN  store_decl(c0, new_id, node, [k |-> "Field", name |-> c0.ret], FIELD_DECL)
        ) : c \in {ctx}} : TRUE

visit_node_as_ast(ctx, node_id, new_id, expected_ty) ==
    CHOOSE r \in {(
        IF node_id \notin DOMAIN ast_nodes THEN Panic(c)
        ELSE LET node == ast_nodes[node_id]
                 tag == node.tag
                 es == Meets(expected_ty, EXPR \cup STMT)
             IN  CASE tag = "TagCompoundStmt" /\ Meets(expected_ty, OTHER_STMT) ->
                          visit_compound_stmt(c, node, new_id)
                   [] tag = "TagDeclStmt" /\ Meets(expected_ty, OTHER_STMT) ->
                          visit_decl_stmt(c, node, new_id)
                   [] tag = "TagReturnStmt" /\ Meets(expected_ty, OTHER_STMT) ->
                          visit_return_stmt(c, node, new_id)
                   [] tag = "TagIfStmt" /\ Meets(expected_ty, OTHER_STMT) ->
                          visit_if_stmt(c, node, new_id)
                   [] tag = "TagGotoStmt" /\ Meets(expected_ty, OTHER_STMT) ->
                          visit_goto_stmt(c, node, new_id)
                   [] tag = "TagNullStmt" /\ Meets(expected_ty, OTHER_STMT) ->
                          visit_null_stmt(c, node, new_id)
                   [] tag = "TagForStmt" /\ Meets(expected_ty, OTHER_STMT) ->
                          visit_for_stmt(c, node, new_id)
                   [] tag = "TagWhileStmt" /\ Meets(expected_ty, OTHER_STMT) ->
                          visit_while_stmt(c, node, new_id)
                   [] tag = "TagDoStmt" /\ Meets(expected_ty, OTHER_STMT) ->
                          visit_do_stmt(c, node, new_id)
                   [] tag = "TagLabelStmt" /\ Meets(expected_ty, LABEL_STMT) ->
                          visit_label_stmt(c, node, new_id)
                   [] tag = "TagParenExpr" /\ es ->
                          visit_paren_expr(c, node, node_id, expected_ty)
                   [] tag \in LiteralTags /\ es ->
                          visit_literal(c, node, new_id, expected_ty)
                   [] tag = "TagUnaryOperator" /\ es ->
                          visit_unary_operator(c, node, new_id, expected_ty)
                   [] tag = "TagImplicitCastExpr" /\ es ->
                          visit_implicit_cast(c, node, new_id, expected_ty)
                   [] tag = "TagCallExpr" /\ es ->
                          visit_call_expr(c, node, new_id, expected_ty)
                   [] tag = "TagMemberExpr" /\ es ->
                          visit_member_expr(c, node, new_id, expected_ty)
                   [] tag = "TagBinaryOperator" /\ es ->
                          visit_binary_operator(c, node, new_id, expected_ty)
                   [] tag = "TagDeclRefExpr" /\ es ->
                          visit_decl_ref_expr(c, node, new_id, expected_ty)
                   [] tag = "TagArraySubscriptExpr" /\ es ->
                          visit_array_subscript_expr(c, node, new_id, expected_ty)
                   [] tag = "TagFunctionDecl" /\ Meets(expected_ty, OTHER_DECL) ->
                          visit_function_decl(c, node, new_id)
                   [] tag = "TagTypedefDecl" /\ Meets(expected_ty, TYPDEF_DECL) ->
                          visit_typedef_decl(c, node, new_id)
                   [] tag = "TagVarDecl" /\ Meets(expected_ty, VAR_DECL) ->
                          visit_var_decl(c, node, new_id)
                   [] tag = "TagRecordDecl" /\ Meets(expected_ty, RECORD_DECL) ->
                          visit_record_decl(c, node, new_id)
                   [] tag = "TagFieldDecl" /\ Meets(expected_ty, FIELD_DECL) ->
                          visit_field_decl(c, node, new_id)
                   [] OTHER -> c   \* println!("Could not translate node ..")
        ) : c \in {ctx}} : TRUE

visit_node(ctx, node_id, new_id, expected_ty) ==
    CHOOSE r \in {(
        IF Meets(expected_ty, TYPE)
        THEN visit_node_as_type(c, node_id, new_id, expected_ty)
        ELSE visit_node_as_ast(c, node_id, new_id, expected_ty)
        ) : c \in {ctx}} : TRUE

\* some arm of the match on ty_node.tag accepts the tag under the mask
HasTypeBuilder(tag, expected_ty) ==
    \/ tag \in PrimTypeTags \cup WrapTypeTags \cup {"TagPointer", "TagRecordType", "TagTypedefType"}
           /\ Meets(expected_ty, OTHER_TYPE)
    \/ tag = "TagFunctionType" /\ Meets(expected_ty, FUNC_TYPE)

\* some arm of the match on node.tag accepts the tag under the mask
HasAstBuilder(tag, expected_ty) ==
    \/ tag \in {"TagCompoundStmt", "TagDeclStmt", "TagReturnStmt", "TagIfStmt", "TagGotoStmt",
                "TagNullStmt", "TagForStmt", "TagWhileStmt", "TagDoStmt"}
           /\ Meets(expected_ty, OTHER_STMT)
    \/ tag = "TagLabelStmt" /\ Meets(expected_ty, LABEL_STMT)
    \/ tag \in {"TagParenExpr", "TagIntegerLiteral", "TagCharacterLiteral", "TagFloatingLiteral",
                "TagUnaryOperator", "TagImplicitCastExpr", "TagCallExpr", "TagMemberExpr",
                "TagBinaryOperator", "TagDeclRefExpr", "TagArraySubscriptExpr"}
           /\ Meets(expected_ty, EXPR \cup STMT)
    \/ tag = "TagFunctionDecl" /\ Meets(expected_ty, OTHER_DECL)
    \/ tag = "TagTypedefDecl" /\ Meets(expected_ty, TYPDEF_DECL)
    \/ tag = "TagVarDecl" /\ Meets(expected_ty, VAR_DECL)
    \/ tag = "TagRecordDecl" /\ Meets(expected_ty, RECORD_DECL)
    \/ tag = "TagFieldDecl" /\ Meets(expected_ty, FIELD_DECL)

(***************************************************************************)
(* ConversionContext::new and ConversionContext::convert                   *)
(***************************************************************************)
\* Variant of SeedWork without the contains_key test; C5_TopComplete fails
\* against it.
SeedWork_unfiltered(tops, nodes) == [i \in 1..Len(tops) |-> <<tops[i], DECL>>]

RECURSIVE SeedWork(_, _)
SeedWork(tops, nodes) ==
    IF tops = <<>> THEN <<>>
    ELSE IF Head(tops) \in DOMAIN nodes
         THEN <<<<Head(tops), DECL>>>> \o SeedWork(Tail(tops), nodes)
         ELSE SeedWork(Tail(tops), nodes)

TopSet == {top_nodes[i] : i \in 1..Len(top_nodes)}

\* the entry `while let Some(..) = self.visit_as.pop()` takes
PoppedId == Last(visit_as)[1]

PoppedTy == Last(visit_as)[2]

\* self.id_mapper.get_new(node_id).and_then(|new_id| self.processed_nodes.get(&new_id))
IsProcessed(node_id) ==
    node_id \in DOMAIN old_to_new /\ old_to_new[node_id] \in DOMAIN processed_nodes

ProcessedTy(node_id) == processed_nodes[old_to_new[node_id]]

\* one iteration of the loop body from line 250 on, for the popped entry
ConvertBody ==
    LET c0 == [CurCtx EXCEPT !.work = Front(visit_as)]
        c1 == get_or_create_new(c0, PoppedId)
        new_id == c1.ret
        c2 == IF PoppedId \in TopSet THEN [c1 EXCEPT !.top = c1.top \cup {new_id}] ELSE c1
    IN  visit_node(c2, PoppedId, new_id, PoppedTy)

\* the record of an iteration on the popped entry
Did(step) == [step |-> step, id |-> PoppedId, ty |-> PoppedTy]

Install(c) ==
    /\ new_id_source' = c.src
    /\ old_to_new' = c.o2n
    /\ new_to_old' = c.n2o
    /\ processed_nodes' = c.proc
    /\ visit_as' = c.work
    /\ c_types' = c.types
    /\ c_exprs' = c.exprs
    /\ c_stmts' = c.stmts
    /\ c_decls' = c.decls
    /\ c_decls_top' = c.top
    /\ c_files' = c_files
    /\ merged' = c.mrg
    /\ minted' = c.mnt

\* Variant of ConvertSkip that continues whatever the recorded type;
\* C10_ClassifiedCheck fails against it.
ConvertSkip_any ==
    /\ status = "running" /\ visit_as # <<>>
    /\ IsProcessed(PoppedId)
    /\ visit_as' = Front(visit_as)
    /\ popped' = popped \cup {<<PoppedId, PoppedTy>>}
    /\ last' = Did("skip")
    /\ UNCHANGED <<inputs, new_id_source, old_to_new, new_to_old, processed_nodes,
                   c_types, c_exprs, c_stmts, c_decls, c_decls_top, c_files, merged, minted, status>>

\* already processed with a compatible type: `continue`
ConvertSkip ==
    /\ status = "running" /\ visit_as # <<>>
    /\ IsProcessed(PoppedId)
    /\ Meets(ProcessedTy(PoppedId), PoppedTy)
    /\ visit_as' = Front(visit_as)
    /\ popped' = popped \cup {<<PoppedId, PoppedTy>>}
    /\ last' = Did("skip")
    /\ UNCHANGED <<inputs, new_id_source, old_to_new, new_to_old, processed_nodes,
                   c_types, c_exprs, c_stmts, c_decls, c_decls_top, c_files, merged, minted, status>>

\* already processed with an incompatible type: panic!("Expected {} to be a node of type ..")
ConvertMismatch ==
    /\ status = "running" /\ visit_as # <<>>
    /\ IsProcessed(PoppedId)
    /\ ~Meets(ProcessedTy(PoppedId), PoppedTy)
    /\ visit_as' = Front(visit_as)
    /\ status' = "aborted"
    /\ popped' = popped \cup {<<PoppedId, PoppedTy>>}
    /\ last' = Did("mismatch")
    /\ UNCHANGED <<inputs, new_id_source, old_to_new, new_to_old, processed_nodes,
                   c_types, c_exprs, c_stmts, c_decls, c_decls_top, c_files, merged, minted>>

\* not processed yet: visit the node
ConvertVisit ==
    /\ status = "running" /\ visit_as # <<>>
    /\ ~IsProcessed(PoppedId)
    /\ \E c \in {ConvertBody} :
           /\ ~c.panic
           /\ Len(c.work) <= MaxWork
           /\ Install(c)
    /\ popped' = popped \cup {<<PoppedId, PoppedTy>>}
    /\ last' = Did("visit")
    /\ UNCHANGED <<inputs, status>>

\* not processed yet, and the builder panics
ConvertVisitPanic ==
    /\ status = "running" /\ visit_as # <<>>
    /\ ~IsProcessed(PoppedId)
    /\ \E c \in {ConvertBody} :
           /\ c.panic
           /\ Install(c)
    /\ status' = "aborted"
    /\ popped' = popped \cup {<<PoppedId, PoppedTy>>}
    /\ last' = Did("panic")
    /\ UNCHANGED inputs

\* the worklist outgrows the memory the model grants it
ConvertExhaust ==
    /\ status = "running" /\ visit_as # <<>>
    /\ ~IsProcessed(PoppedId)
    /\ \E c \in {ConvertBody} :
           /\ ~c.panic
           /\ Len(c.work) > MaxWork
    /\ status' = "exhausted"
    /\ popped' = popped \cup {<<PoppedId, PoppedTy>>}
    /\ last' = Did("exhaust")
    /\ UNCHANGED <<inputs, new_id_source, old_to_new, new_to_old, processed_nodes, visit_as,
                   c_types, c_exprs, c_stmts, c_decls, c_decls_top, c_files, merged, minted>>

\* the worklist is empty: convert returns
ConvertReturn ==
    /\ status = "running" /\ visit_as = <<>>
    /\ status' = "done"
    /\ last' = [step |-> "return", id |-> NoId, ty |-> {}]
    /\ UNCHANGED <<inputs, new_id_source, old_to_new, new_to_old, processed_nodes, visit_as,
                   c_types, c_exprs, c_stmts, c_decls, c_decls_top, c_files, merged, minted, popped>>

(***************************************************************************)
(* TypedAstContext: indexing and the type-alias resolver, on the finished  *)
(* context.  A result is [res |-> "ok", id |-> _], or "panic" (a failed    *)
(* index or the panic! of the typedef arm), or "overflow" (the recursion   *)
(* outgrows the stack).  depth counts the calls below the first.           *)
(***************************************************************************)
Resolved(res, id) == [res |-> res, id |-> id]

RECURSIVE resolve_type_id(_, _)

\* Variant of resolve_type_id whose typedef arm returns the declared type
\* without resolving it further; C12_ResolveChain fails against it.
resolve_type_id_one_typedef(typ, depth) ==
    IF depth > MaxDepth THEN Resolved("overflow", NoId)
    ELSE IF typ \notin DOMAIN c_types THEN Resolved("panic", NoId)
    ELSE LET kind == c_types[typ].kind
         IN  CASE kind.k \in {"Elaborated", "Decayed", "TypeOf"} ->
                      resolve_type_id(kind.ty, depth + 1)
               [] kind.k = "Typedef" ->
                      IF kind.decl \notin DOMAIN c_decls THEN Resolved("panic", NoId)
                      ELSE IF c_decls[kind.decl].kind.k = "Typedef"
                           THEN Resolved("ok", c_decls[kind.decl].kind.typ)
                           ELSE Resolved("panic", NoId)
               [] OTHER -> Resolved("ok", typ)

\* Variant of resolve_type_id that takes a typedef reference to a declaration
\* that is no typedef as its own resolution; C35_ResolveFailures fails against it.
resolve_type_id_any_decl(typ, depth) ==
    IF depth > MaxDepth THEN Resolved("overflow", NoId)
    ELSE IF typ \notin DOMAIN c_types THEN Resolved("panic", NoId)
    ELSE LET kind == c_types[typ].kind
         IN  CASE kind.k \in {"Elaborated", "Decayed", "TypeOf"} ->
                      resolve_type_id(kind.ty, depth + 1)
               [] kind.k = "Typedef" ->
                      IF kind.decl \notin DOMAIN c_decls THEN Resolved("panic", NoId)
                      ELSE IF c_decls[kind.decl].kind.k = "Typedef"
                           THEN resolve_type_id(c_decls[kind.decl].kind.typ, depth + 1)
                           ELSE Resolved("ok", typ)
               [] OTHER -> Resolved("ok", typ)

\* Variant of resolve_type_id that looks through one wrapping form only;
\* C38_ResolveIdempotent fails against it.
resolve_type_id_one_step(typ, depth) ==
    IF depth > MaxDepth THEN Resolved("overflow", NoId)
    ELSE IF typ \notin DOMAIN c_types THEN Resolved("panic", NoId)
    ELSE LET kind == c_types[typ].kind
         IN  CASE kind.k \in {"Elaborated", "Decayed", "TypeOf"} ->
                      Resolved("ok", kind.ty)
               [] kind.k = "Typedef" ->
                      IF kind.decl \notin DOMAIN c_decls THEN Resolved("panic", NoId)
                      ELSE IF c_decls[kind.decl].kind.k = "Typedef"
                           THEN resolve_type_id(c_decls[kind.decl].kind.typ, depth + 1)
                           ELSE Resolved("panic", NoId)
               [] OTHER -> Resolved("ok", typ)

resolve_type_id(typ, depth) ==
    IF depth > MaxDepth THEN Resolved("overflow", NoId)
    ELSE IF typ \notin DOMAIN c_types THEN Resolved("panic", NoId)
    ELSE LET kind == c_types[typ].kind
         IN  CASE kind.k \in {"Elaborated", "Decayed", "TypeOf"} ->
                      resolve_type_id(kind.ty, depth + 1)
               [] kind.k = "Typedef" ->
                      IF kind.decl \notin DOMAIN c_decls THEN Resolved("panic", NoId)
                      ELSE IF c_decls[kind.decl].kind.k = "Typedef"
                           THEN resolve_type_id(c_decls[kind.decl].kind.typ, depth + 1)
                           ELSE Resolved("panic", NoId)
               [] OTHER -> Resolved("ok", typ)

\* resolve_type: the stored type the resolved id names
resolve_type(typ) ==
    LET r == resolve_type_id(typ, 0)
    IN  IF r.res # "ok" THEN [res |-> r.res, ty |-> not_located([k |-> "none"])]
        ELSE IF r.id \notin DOMAIN c_types
             THEN [res |-> "panic", ty |-> not_located([k |-> "none"])]
             ELSE [res |-> "ok", ty |-> c_types[r.id]]

\* a caller resolves a stored type of the context convert returned
ResolveType ==
    /\ status = "done"
    /\ \E typ \in DOMAIN c_types :
           last' = [step |-> "resolve", id |-> typ, ty |-> {},
                    res |-> resolve_type_id(typ, 0)]
    /\ UNCHANGED <<inputs, new_id_source, old_to_new, new_to_old, processed_nodes, visit_as,
                   c_types, c_exprs, c_stmts, c_decls, c_decls_top, c_files, merged, minted, popped, status>>

(***************************************************************************)
(* Inputs of Spec: one function whose body is drawn from statement and     *)
(* expression nodes that may share children, form cycles, refer to the     *)
(* function itself or to a node that is absent from the input.             *)
(***************************************************************************)
AstNode(tag, children, type_id, extras) ==
    [tag |-> tag, children |-> children, type_id |-> type_id, extras |-> extras,
     line |-> 1, column |-> 1, fileid |-> 1]

TypeNode(tag, constant, extras) == [tag |-> tag, constant |-> constant, extras |-> extras]

U64(n) == [t |-> "u64", v |-> n]

Str(s) == [t |-> "str", v |-> s]

Arr(s) == [t |-> "array", v |-> s]

Bool(x) == [t |-> "bool", v |-> x]

F64(x) == [t |-> "f64", v |-> x]

Null == [t |-> "null", v |-> ""]

\* foreign ids: 1 the function, BodyIds its statements and expressions,
\* 6 and 7 the type nodes, 9 an id no map holds
BodyIds == {2, 3, 4, 5}

Ids == [fn |-> 1, body |-> 2, int |-> 6, fnty |-> 7, ptr |-> 8, missing |-> 9,
        recty |-> 10, tdty |-> 11, elab |-> 12, dbl |-> 13, tyof |-> 14, dec |-> 15,
        fnty2 |-> 16, fnty0 |-> 17, fntyBad |-> 18, tdef |-> 33, rec |-> 34,
        ptrStr |-> 50, recStr |-> 51, tdStr |-> 52, elabNull |-> 53, tyofStr |-> 54,
        decBool |-> 55, fntyU64 |-> 56]

\* int; int(void); int *const; struct S; T; the elaborated struct S; double;
\* typeof of the decayed T; the decayed T; int(int *const, double); a function type
\* without arguments; a function type whose parameter is absent from the input
\* (no id is a key of both type_nodes and ast_nodes)
SpecTypeNodes ==
    (Ids.int :> TypeNode("TagInt", FALSE, <<>>)) @@
    (Ids.fnty :> TypeNode("TagFunctionType", FALSE, <<Arr(<<U64(Ids.int)>>)>>)) @@
    (Ids.ptr :> TypeNode("TagPointer", TRUE, <<U64(Ids.int)>>)) @@
    (Ids.recty :> TypeNode("TagRecordType", FALSE, <<U64(Ids.rec)>>)) @@
    (Ids.tdty :> TypeNode("TagTypedefType", FALSE, <<U64(Ids.tdef)>>)) @@
    (Ids.elab :> TypeNode("TagElaboratedType", FALSE, <<U64(Ids.recty)>>)) @@
    (Ids.dbl :> TypeNode("TagDouble", FALSE, <<>>)) @@
    (Ids.tyof :> TypeNode("TagTypeOfType", FALSE, <<U64(Ids.dec)>>)) @@
    (Ids.dec :> TypeNode("TagDecayedType", FALSE, <<U64(Ids.tdty)>>)) @@
    (Ids.fnty2 :> TypeNode("TagFunctionType", FALSE,
                           <<Arr(<<U64(Ids.int), U64(Ids.ptr), U64(Ids.dbl)>>)>>)) @@
    (Ids.fnty0 :> TypeNode("TagFunctionType", FALSE, <<Arr(<<>>)>>)) @@
    (Ids.fntyBad :> TypeNode("TagFunctionType", FALSE,
                             <<Arr(<<U64(Ids.int), U64(Ids.missing)>>)>>)) @@
    (Ids.ptrStr :> TypeNode("TagPointer", FALSE, <<Str("6")>>)) @@
    (Ids.recStr :> TypeNode("TagRecordType", FALSE, <<Str("34")>>)) @@
    (Ids.tdStr :> TypeNode("TagTypedefType", FALSE, <<Str("33")>>)) @@
    (Ids.elabNull :> TypeNode("TagElaboratedType", FALSE, <<Null>>)) @@
    (Ids.tyofStr :> TypeNode("TagTypeOfType", FALSE, <<Str("6")>>)) @@
    (Ids.decBool :> TypeNode("TagDecayedType", FALSE, <<Bool(TRUE)>>)) @@
    (Ids.fntyU64 :> TypeNode("TagFunctionType", FALSE, <<U64(Ids.int)>>))

FnNode == AstNode("TagFunctionDecl", <<Ids.body>>, Ids.fnty, <<Str("main")>>)

Fwd(i, d) == {i + d} \cap BodyIds

BodyShapes(i) ==
    {AstNode("TagNullStmt", <<>>, NoId, <<>>),
     AstNode("TagIntegerLiteral", <<>>, Ids.int, <<U64(0)>>),
     AstNode("TagCompoundStmt", <<>>, NoId, <<>>),
     AstNode("TagReturnStmt", <<NoId>>, NoId, <<>>)}
    \cup {AstNode("TagParenExpr", <<x>>, NoId, <<>>) :
              x \in {Ids.fn} \cup Fwd(i, -1) \cup Fwd(i, 1) \cup Fwd(i, 2)}
    \cup {AstNode("TagReturnStmt", <<x>>, NoId, <<>>) :
              x \in Fwd(i, 1) \cup (IF i + 1 \in BodyIds THEN {} ELSE {Ids.missing})}
    \cup {AstNode("TagWhileStmt", <<x, y>>, NoId, <<>>) :
              x \in Fwd(i, 1), y \in {i} \cup Fwd(i, 2)}
    \cup {AstNode("TagCompoundStmt", <<x, y>>, NoId, <<>>) :
              x \in Fwd(i, 1), y \in Fwd(i, 1) \cup Fwd(i, 2)}

NullNode == AstNode("TagNullStmt", <<>>, NoId, <<>>)

ChildRefs(node) == {node.children[i] : i \in 1..Len(node.children)} \ {NoId}

\* the ids of `nodes` that a traversal from `seen` can reach
RECURSIVE Reach(_, _)
Reach(nodes, seen) ==
    LET more == (UNION {ChildRefs(nodes[i]) : i \in seen}) \cap DOMAIN nodes
    IN  IF more \subseteq seen THEN seen ELSE Reach(nodes, seen \cup more)

\* every choice of one shape per body id
RECURSIVE BodyGraphs(_)
BodyGraphs(ids) ==
    IF ids = {} THEN {EmptyMap}
    ELSE LET i == CHOOSE x \in ids : TRUE
         IN  {(i :> sh) @@ g : sh \in BodyShapes(i), g \in BodyGraphs(ids \ {i})}

\* a node that no traversal reads is a null statement
SpecAstNodes ==
    {g \in {(Ids.fn :> FnNode) @@ b : b \in BodyGraphs(BodyIds)} :
        \A i \in BodyIds \ Reach(g, {Ids.fn}) : g[i] = NullNode}

SpecTopNodes == {<<Ids.fn>>, <<Ids.fn, Ids.body>>, <<Ids.missing, Ids.fn>>}

(***************************************************************************)
(* Inputs of Spec, continued: whole programs, for the builders of the      *)
(* declarations, the remaining statements and expressions, and the types.  *)
(***************************************************************************)
\*   int main(int *const p) {
\*       T x = 0;
\*       if (x < 0) return -x;
\*     l: for (; x < 0; main(0)) goto l;
\*       x = 0;
\*   }
\* fnType is the type of main, gotoTarget the statement the goto names
DeclProgram(fnType, gotoTarget) ==
    (Ids.fn :> AstNode("TagFunctionDecl", <<30, 2>>, fnType, <<Str("main")>>)) @@
    (30 :> AstNode("TagVarDecl", <<NoId>>, Ids.ptr, <<Str("p")>>)) @@
    (2  :> AstNode("TagCompoundStmt", <<3, 4, 5, 40>>, NoId, <<>>)) @@
    (3  :> AstNode("TagDeclStmt", <<31>>, NoId, <<>>)) @@
    (31 :> AstNode("TagVarDecl", <<20>>, Ids.tdty, <<Str("x")>>)) @@
    (Ids.tdef :> AstNode("TagTypedefDecl", <<>>, Ids.int, <<Str("T")>>)) @@
    (20 :> AstNode("TagIntegerLiteral", <<>>, Ids.int, <<U64(0)>>)) @@
    (4  :> AstNode("TagIfStmt", <<21, 22, NoId>>, NoId, <<>>)) @@
    (21 :> AstNode("TagBinaryOperator", <<23, 20>>, Ids.int, <<Str("<")>>)) @@
    (23 :> AstNode("TagDeclRefExpr", <<31>>, Ids.int, <<>>)) @@
    (22 :> AstNode("TagReturnStmt", <<24>>, NoId, <<>>)) @@
    (24 :> AstNode("TagUnaryOperator", <<23>>, Ids.int, <<Str("-"), Bool(TRUE)>>)) @@
    (5  :> AstNode("TagLabelStmt", <<25>>, NoId, <<>>)) @@
    (25 :> AstNode("TagForStmt", <<NoId, 21, 26, 27>>, NoId, <<>>)) @@
    (26 :> AstNode("TagCallExpr", <<28, 20>>, Ids.int, <<>>)) @@
    (28 :> AstNode("TagImplicitCastExpr", <<29>>, Ids.ptr, <<>>)) @@
    (29 :> AstNode("TagDeclRefExpr", <<Ids.fn>>, Ids.fnty, <<>>)) @@
    (27 :> AstNode("TagGotoStmt", <<gotoTarget>>, NoId, <<>>)) @@
    (40 :> AstNode("TagBinaryOperator", <<23, 20>>, Ids.int, <<Str("=")>>))

\*   struct S { int f; };              (or an unnamed struct)
\*   int main(void) {
\*       struct S s;
\*       do s.f; while ('a'[1.0]);
\*   }
RecordProgram(recName) ==
    (Ids.rec :> AstNode("TagRecordDecl", <<35>>, NoId, <<recName>>)) @@
    (35 :> AstNode("TagFieldDecl", <<>>, NoId, <<Str("f")>>)) @@
    (Ids.fn :> AstNode("TagFunctionDecl", <<2>>, Ids.fnty, <<Str("main")>>)) @@
    (2  :> AstNode("TagCompoundStmt", <<3, 4>>, NoId, <<>>)) @@
    (3  :> AstNode("TagDeclStmt", <<36>>, NoId, <<>>)) @@
    (36 :> AstNode("TagVarDecl", <<NoId>>, Ids.elab, <<Str("s")>>)) @@
    (4  :> AstNode("TagDoStmt", <<5, 21>>, NoId, <<>>)) @@
    (5  :> AstNode("TagMemberExpr", <<23, 35>>, Ids.int, <<>>)) @@
    (23 :> AstNode("TagDeclRefExpr", <<36>>, Ids.elab, <<>>)) @@
    (21 :> AstNode("TagArraySubscriptExpr", <<22, 24>>, Ids.int, <<>>)) @@
    (22 :> AstNode("TagCharacterLiteral", <<>>, Ids.int, <<U64(97)>>)) @@
    (24 :> AstNode("TagFloatingLiteral", <<>>, Ids.dbl, <<F64(1)>>))

\*   struct S {};
\*   typedef <tdType> T;               (tdNode; or a node that is no typedef)
\*   int main(void) { <varType> x; }
TypeProgram(varType, tdNode) ==
    (Ids.rec :> AstNode("TagRecordDecl", <<>>, NoId, <<Str("S")>>)) @@
    (Ids.tdef :> tdNode) @@
    (Ids.fn :> AstNode("TagFunctionDecl", <<2>>, Ids.fnty, <<Str("main")>>)) @@
    (2  :> AstNode("TagDeclStmt", <<31>>, NoId, <<>>)) @@
    (31 :> AstNode("TagVarDecl", <<NoId>>, varType, <<Str("x")>>))

\* the nodes at the id the typedef type names
TdNodes ==
    {AstNode("TagTypedefDecl", <<>>, ty, <<Str("T")>>) : ty \in {Ids.int, Ids.elab, Ids.tyof}}
    \cup {AstNode("TagFieldDecl", <<>>, NoId, <<Str("f")>>)}

\*   struct S { int f; };
\*   int main(f) {}                    (the parameter is the field of S)
ParamFieldProgram ==
    (Ids.rec :> AstNode("TagRecordDecl", <<35>>, NoId, <<Str("S")>>)) @@
    (35 :> AstNode("TagFieldDecl", <<>>, NoId, <<Str("f")>>)) @@
    (Ids.fn :> AstNode("TagFunctionDecl", <<35, 2>>, Ids.fnty, <<Str("main")>>)) @@
    (2 :> AstNode("TagCompoundStmt", <<>>, NoId, <<>>))

\*   int main() { return 0; }
MainProgram ==
    (Ids.fn :> AstNode("TagFunctionDecl", <<2>>, Ids.fnty, <<Str("main")>>)) @@
    (2 :> AstNode("TagCompoundStmt", <<3>>, NoId, <<>>)) @@
    (3 :> AstNode("TagReturnStmt", <<4>>, NoId, <<>>)) @@
    (4 :> AstNode("TagIntegerLiteral", <<>>, Ids.int, <<U64(0)>>))

\* One node whose child slots and type reference are each present or absent.  Slot i,
\* when present, names the literal at the foreign id SlotChild(i).  A statement or an
\* expression is the body of main; a declaration is the one top-level node.
SlotArity ==
    ("TagIfStmt" :> 3) @@ ("TagForStmt" :> 4) @@ ("TagWhileStmt" :> 2) @@
    ("TagDoStmt" :> 2) @@ ("TagLabelStmt" :> 1) @@ ("TagGotoStmt" :> 1) @@
    ("TagReturnStmt" :> 1) @@ ("TagCompoundStmt" :> 2) @@ ("TagDeclStmt" :> 2) @@
    ("TagUnaryOperator" :> 1) @@ ("TagBinaryOperator" :> 2) @@
    ("TagImplicitCastExpr" :> 1) @@ ("TagCallExpr" :> 3) @@ ("TagMemberExpr" :> 2) @@
    ("TagArraySubscriptExpr" :> 2) @@ ("TagDeclRefExpr" :> 1) @@ ("TagVarDecl" :> 1) @@
    ("TagRecordDecl" :> 2) @@ ("TagFunctionDecl" :> 2)

SlotDeclTags == {"TagVarDecl", "TagRecordDecl", "TagFunctionDecl"}

SlotChild(i) == 40 + i

SlotTypes(tag) ==
    CASE HasAstBuilder(tag, EXPR) -> {Ids.int, NoId, Ids.missing}
      [] tag = "TagVarDecl" -> {Ids.int, NoId, Ids.missing}
      [] tag = "TagFunctionDecl" -> {Ids.fnty, NoId}
      [] OTHER -> {NoId}

SlotExtras(tag) ==
    CASE tag = "TagUnaryOperator" -> <<Str("-"), Bool(TRUE)>>
      [] tag = "TagBinaryOperator" -> <<Str("+")>>
      [] tag \in SlotDeclTags -> <<Str("v")>>
      [] OTHER -> <<>>

SlotNodes ==
    UNION {{AstNode(tag, [i \in 1..SlotArity[tag] |-> IF i \in present THEN SlotChild(i) ELSE NoId],
                    ty, SlotExtras(tag)) :
                present \in SUBSET (1..SlotArity[tag]), ty \in SlotTypes(tag)} :
           tag \in DOMAIN SlotArity}
    \cup {AstNode("TagFunctionDecl", <<>>, Ids.fnty, <<Str("v")>>),
          AstNode("TagCallExpr", <<>>, Ids.int, <<>>)}

SlotProgram(node) ==
    (3 :> node) @@
    [i \in {SlotChild(k) : k \in 1..4} |-> AstNode("TagIntegerLiteral", <<>>, Ids.int, <<U64(0)>>)] @@
    (Ids.fn :> AstNode("TagFunctionDecl", <<3>>, Ids.fnty, <<Str("main")>>))

SlotTop(node) == IF node.tag \in SlotDeclTags THEN <<3>> ELSE <<Ids.fn>>

\* One operator node for every operator string the builders decode and for one they
\* do not, and declarations whose type node holds an extra field of another kind
\* than its builder expects.
ExtraDeclTags == SlotDeclTags \cup {"TagTypedefDecl", "TagFieldDecl"}

ExtraTypes == {Ids.ptrStr, Ids.recStr, Ids.tdStr, Ids.elabNull, Ids.tyofStr, Ids.decBool}

ExtraFnTypes == {Ids.fntyU64}

ExtraNodes ==
    {AstNode("TagUnaryOperator", <<SlotChild(1)>>, Ids.int, <<Str(s), Bool(p)>>) :
         s \in UnOpStrings \cup {"?"}, p \in BOOLEAN}
    \cup {AstNode("TagBinaryOperator", <<SlotChild(1), SlotChild(2)>>, Ids.int, <<Str(s)>>) :
              s \in BinOpStrings \cup {"?"}}
    \cup {AstNode("TagVarDecl", <<SlotChild(1)>>, ty, <<Str("v")>>) : ty \in ExtraTypes}
    \cup {AstNode("TagFunctionDecl", <<SlotChild(1)>>, ty, <<Str("v")>>) : ty \in ExtraFnTypes}

\* One node, with every child and its type present, for every extra field a builder
\* reads and payload kinds other than the one it expects there.
LiteralPayloads == <<U64(0), Str("-"), F64(1), Bool(TRUE), Arr(<<>>), Null>>

NamePayloads == <<U64(0), Null>>

DeclTagSeq == <<"TagVarDecl", "TagFunctionDecl", "TagTypedefDecl", "TagFieldDecl">>

LiteralTagSeq == <<"TagIntegerLiteral", "TagCharacterLiteral", "TagFloatingLiteral">>

ShapeNodes ==
    [i \in 1..18 |-> AstNode(LiteralTagSeq[((i - 1) \div 6) + 1], <<>>, Ids.int,
                             <<LiteralPayloads[((i - 1) % 6) + 1]>>)]
    \o <<AstNode("TagUnaryOperator", <<SlotChild(1)>>, Ids.int, <<U64(0), Bool(TRUE)>>),
         AstNode("TagUnaryOperator", <<SlotChild(1)>>, Ids.int, <<Null, Bool(TRUE)>>),
         AstNode("TagUnaryOperator", <<SlotChild(1)>>, Ids.int, <<Str("-"), Str("-")>>),
         AstNode("TagUnaryOperator", <<SlotChild(1)>>, Ids.int, <<Str("-"), Null>>),
         AstNode("TagBinaryOperator", <<SlotChild(1), SlotChild(2)>>, Ids.int, <<U64(0)>>),
         AstNode("TagBinaryOperator", <<SlotChild(1), SlotChild(2)>>, Ids.int, <<Null>>),
         AstNode("TagRecordDecl", <<>>, NoId, <<U64(0)>>)>>
    \o [i \in 1..8 |-> AstNode(DeclTagSeq[((i - 1) \div 2) + 1], <<SlotChild(1)>>,
                               IF i \in {3, 4} THEN Ids.fnty ELSE Ids.int,
                               <<NamePayloads[((i - 1) % 2) + 1]>>)]

ExtraTop(node) == IF node.tag \in ExtraDeclTags THEN <<3>> ELSE <<Ids.fn>>

(***************************************************************************)
(* matcher/subst.rs: substitution of Bindings into a template AST.         *)
(*                                                                         *)
(* A fragment of the Rust AST is a record: an Ident has a name, a Path has *)
(* segments (a sequence of Idents), an Expr has a kind, the Path of kind   *)
(* "Path" and the sub-expressions of the other kinds.  A binding is a      *)
(* record of the type of the bound fragment and the fragment.  A fold      *)
(* returns the folded fragment, or reports the panic raised inside it.     *)
(***************************************************************************)
Ident(name) == [node |-> "Ident", name |-> name]

Path(segments) == [node |-> "Path", segments |-> segments]

Expr(kind, path, args) == [node |-> "Expr", kind |-> kind, path |-> path, args |-> args]

PathExpr(path) == Expr("Path", path, <<>>)

NoTemplate == [node |-> "None"]

Binding(ty, val) == [ty |-> ty, val |-> val]

Folded(n) == [panic |-> FALSE, node |-> n]

FoldPanic == [panic |-> TRUE, node |-> NoTemplate]

\* ast_manip::util::PatternSymbol: the one name a fragment stands for, <<>> if none
pattern_symbol(n) ==
    CASE n.node = "Ident" -> <<n.name>>
      [] n.node = "Path" -> IF Len(n.segments) = 1 THEN <<n.segments[1].name>> ELSE <<>>
      [] n.node = "Expr" ->
             IF n.kind = "Path" /\ Len(n.path.segments) = 1
             THEN <<n.path.segments[1].name>> ELSE <<>>
      [] OTHER -> <<>>

\* Bindings::get_ident, get_path, get_expr, ...: the fragment bound to sym if it has type ty
get_typed(b, sym, ty) ==
    IF sym \in DOMAIN b /\ b[sym].ty = ty THEN <<b[sym].val>> ELSE <<>>

\* Bindings::get_type
get_type(b, sym) == IF sym \in DOMAIN b THEN <<b[sym].ty>> ELSE <<>>

\* Variant of fold_ident without the error on a binding of another type;
\* C36_IdentError fails against it.
fold_ident_no_error(b, i) ==
    LET sym == pattern_symbol(i) IN
    IF sym # <<>> /\ get_typed(b, sym[1], "Ident") # <<>>
    THEN Folded(get_typed(b, sym[1], "Ident")[1])
    ELSE Folded(i)

fold_ident(b, i) ==
    LET sym == pattern_symbol(i) IN
    IF sym # <<>> /\ get_typed(b, sym[1], "Ident") # <<>>
    THEN Folded(get_typed(b, sym[1], "Ident")[1])
    ELSE IF sym # <<>> /\ get_type(b, sym[1]) # <<>>
    THEN FoldPanic
    ELSE Folded(i)

\* syntax::fold::noop_fold_path: every segment's ident goes through fold_ident
noop_fold_path(b, p) ==
    LET segs == [k \in 1..Len(p.segments) |-> fold_ident(b, p.segments[k])] IN
    IF \E k \in 1..Len(segs) : segs[k].panic
    THEN FoldPanic
    ELSE Folded(Path([k \in 1..Len(segs) |-> segs[k].node]))

fold_path_segments_only(b, p) ==
    noop_fold_path(b, p)

fold_path(b, p) ==
    LET sym == pattern_symbol(p) IN
    IF sym # <<>> /\ get_typed(b, sym[1], "Path") # <<>>
    THEN Folded(get_typed(b, sym[1], "Path")[1])
    ELSE noop_fold_path(b, p)

RECURSIVE fold_expr(_, _)

\* syntax::fold::noop_fold_expr: the path of a path expression goes through fold_path,
\* the sub-expressions of the other kinds go through fold_expr
noop_fold_expr(b, e) ==
    IF e.kind = "Path"
    THEN LET p == fold_path(b, e.path) IN
         IF p.panic THEN FoldPanic ELSE Folded(PathExpr(p.node))
    ELSE LET args == [k \in 1..Len(e.args) |-> fold_expr(b, e.args[k])] IN
         IF \E k \in 1..Len(args) : args[k].panic
         THEN FoldPanic
         ELSE Folded(Expr(e.kind, e.path, [k \in 1..Len(args) |-> args[k].node]))

fold_expr(b, e) ==
    LET sym == pattern_symbol(e) IN
    IF sym # <<>> /\ get_typed(b, sym[1], "Expr") # <<>>
    THEN Folded(get_typed(b, sym[1], "Expr")[1])
    ELSE noop_fold_expr(b, e)

\* the names of the templates and of the bindings; "f" is never bound
HoleNames == {"__x", "__y"}

NoPath == Path(<<>>)

\* the fragments a name is bound to: one of each type, and a statement for the types
\* that are neither Ident, Path nor Expr
BoundValues ==
    {Binding("Ident", Ident("a")),
     Binding("Path", Path(<<Ident("m"), Ident("a")>>)),
     Binding("Expr", Expr("Lit", NoPath, <<>>)),
     Binding("Expr", PathExpr(Path(<<Ident("__y")>>))),
     Binding("Stmt", [node |-> "Stmt"])}

SpecBindings ==
    UNION {[names -> BoundValues] : names \in SUBSET HoleNames}

ExprTemplates ==
    {PathExpr(Path(<<Ident(n)>>)) : n \in HoleNames \cup {"f"}}
    \cup {PathExpr(Path(<<Ident("m"), Ident("__x")>>)),
          Expr("Unary", NoPath, <<PathExpr(Path(<<Ident("__x")>>))>>),
          Expr("Call", NoPath, <<PathExpr(Path(<<Ident("f")>>)),
                                 PathExpr(Path(<<Ident("__x")>>)),
                                 PathExpr(Path(<<Ident("__y")>>))>>),
          Expr("Lit", NoPath, <<>>)}

IdentTemplates == {Ident(n) : n \in HoleNames \cup {"f"}}

\* the files of the inputs: every node above is in file 1
SpecFileMap == 1 :> "main.c"

\* an input: the AST nodes and the top-level ids
Input(ast, top) == [ast |-> ast, top |-> top]

SpecInputs ==
    {Input(g, t) : g \in SpecAstNodes, t \in SpecTopNodes}
    \cup {Input(DeclProgram(ty, l), <<Ids.fn>>) :
              ty \in {Ids.fnty, Ids.int, Ids.dbl}, l \in {5, 3, 40}}
    \cup {Input(DeclProgram(ty, 5), <<Ids.fn>>) : ty \in {Ids.fnty2, Ids.fnty0, Ids.fntyBad}}
    \cup {Input(SlotProgram(node), SlotTop(node)) : node \in SlotNodes}
    \cup {Input(SlotProgram(node), ExtraTop(node)) : node \in ExtraNodes}
    \cup {Input(RecordProgram(n), <<Ids.rec, Ids.fn>>) : n \in {Str("S"), Null}}
    \cup {Input(MainProgram, <<Ids.fn>>)}
    \cup {Input(ParamFieldProgram, t) : t \in {<<Ids.rec, Ids.fn>>, <<Ids.fn, Ids.rec>>}}
    \cup {Input(TypeProgram(ty, td), <<Ids.fn>>) :
              ty \in {Ids.tyof, Ids.dec, Ids.tdty, Ids.elab, Ids.ptr}, td \in TdNodes}

Init ==
    /\ type_nodes = SpecTypeNodes
    /\ file_map = SpecFileMap
    /\ template = NoTemplate /\ bindings = EmptyMap
    /\ \/ \E inp \in SpecInputs : ast_nodes = inp.ast /\ top_nodes = inp.top
       \/ \E i \in DOMAIN ShapeNodes :
              /\ ast_nodes = SlotProgram(ShapeNodes[i])
              /\ top_nodes = ExtraTop(ShapeNodes[i])
    /\ new_id_source = 0
    /\ old_to_new = EmptyMap
    /\ new_to_old = EmptyMap
    /\ processed_nodes = EmptyMap
    /\ visit_as = SeedWork(top_nodes, ast_nodes)
    /\ c_types = EmptyMap
    /\ c_exprs = EmptyMap
    /\ c_stmts = EmptyMap
    /\ c_decls = EmptyMap
    /\ c_decls_top = {}
    /\ c_files = EmptyMap
    /\ merged = {}
    /\ minted = <<>>
    /\ popped = {}
    /\ last = [step |-> "none", id |-> NoId, ty |-> {}]
    /\ status = "running"

Next ==
    \/ ConvertSkip
    \/ ConvertMismatch
    \/ ConvertVisit
    \/ ConvertVisitPanic
    \/ ConvertExhaust
    \/ ConvertReturn
    \/ ResolveType

Spec == Init /\ [][Next]_vars

(***************************************************************************)
(* The running program: the loop of convert keeps taking iterations, so    *)
(* Next is weakly fair.  CycInit draws the inputs of Init whose two last   *)
(* body nodes are leaves: a null statement, a literal or a return of the   *)
(* absent node.                                                            *)
(***************************************************************************)
CycAstNodes ==
    {g \in SpecAstNodes :
        /\ g[4] \in {NullNode, AstNode("TagIntegerLiteral", <<>>, Ids.int, <<U64(0)>>)}
        /\ g[5] \in {NullNode, AstNode("TagReturnStmt", <<Ids.missing>>, NoId, <<>>)}}

CycInit ==
    /\ Init
    /\ top_nodes = <<Ids.fn>>
    /\ ast_nodes \in CycAstNodes

FairSpec == CycInit /\ [][Next]_vars /\ WF_vars(Next)

(***************************************************************************)
(* The IdMapper on its own: any sequence of calls of fresh_id,             *)
(* get_or_create_new, get_old and merge_old on a new mapper, over three    *)
(* foreign ids.  `last` records the call and what it returned.             *)
(***************************************************************************)
MapperIds == {1, 2, 3}

Called(step, id, other, res) == [step |-> step, id |-> id, other |-> other, res |-> res]

FreshId ==
    /\ new_id_source < MaxIds
    /\ \E c \in {fresh_id(CurCtx)} :
           Install(c) /\ last' = Called("fresh_id", NoId, NoId, c.ret)
    /\ UNCHANGED <<inputs, popped, status>>

GetOrCreateNew ==
    /\ \E old_id \in MapperIds :
           /\ old_id \in DOMAIN old_to_new \/ new_id_source < MaxIds
           /\ \E c \in {get_or_create_new(CurCtx, old_id)} :
                  Install(c) /\ last' = Called("get_or_create_new", old_id, NoId, c.ret)
    /\ UNCHANGED <<inputs, popped, status>>

GetOld ==
    /\ \E new_id \in 1..MaxIds :
           last' = Called("get_old", new_id, NoId, get_old(CurCtx, new_id))
    /\ UNCHANGED <<inputs, new_id_source, old_to_new, new_to_old, processed_nodes, visit_as,
                   c_types, c_exprs, c_stmts, c_decls, c_decls_top, c_files, merged, minted, popped,
                   status>>

MergeOld ==
    /\ Cardinality(merged) < MaxMerges
    /\ \E old_id \in MapperIds, other_old_id \in MapperIds :
           \E c \in {merge_old(CurCtx, old_id, other_old_id)} :
               Install(c) /\ last' = Called("merge_old", old_id, other_old_id, c.ret)
    /\ UNCHANGED <<inputs, popped, status>>

\* IdMapper::new(); the rest of the conversion context is not used
MapperInit ==
    /\ ast_nodes = EmptyMap /\ type_nodes = EmptyMap /\ top_nodes = <<>>
    /\ file_map = EmptyMap
    /\ template = NoTemplate /\ bindings = EmptyMap
    /\ new_id_source = 0
    /\ old_to_new = EmptyMap
    /\ new_to_old = EmptyMap
    /\ processed_nodes = EmptyMap
    /\ visit_as = <<>>
    /\ c_types = EmptyMap /\ c_exprs = EmptyMap /\ c_stmts = EmptyMap /\ c_decls = EmptyMap
    /\ c_decls_top = {}
    /\ c_files = EmptyMap
    /\ merged = {}
    /\ minted = <<>>
    /\ popped = {}
    /\ last = Called("new", NoId, NoId, NoId)
    /\ status = "mapper"

MapperNext ==
    \/ FreshId
    \/ GetOrCreateNew
    \/ GetOld
    \/ MergeOld

MapperSpec == MapperInit /\ [][MapperNext]_vars

(***************************************************************************)
(* Subst::subst on its own: one template and one set of bindings, and the  *)
(* impl of the template's type applied to them (subst_impl!).  `last`      *)
(* records the result.                                                     *)
(***************************************************************************)
Substituted(res) == [step |-> "subst", id |-> NoId, ty |-> {}, res |-> res]

\* impl Subst for P<Expr>
SubstExpr ==
    /\ status = "subst"
    /\ template.node = "Expr"
    /\ last' = Substituted(fold_expr(bindings, template))
    /\ status' = IF fold_expr(bindings, template).panic THEN "aborted" ELSE "done"
    /\ UNCHANGED <<inputs, new_id_source, old_to_new, new_to_old, processed_nodes, visit_as,
                   c_types, c_exprs, c_stmts, c_decls, c_decls_top, c_files, merged, minted, popped>>

\* impl Subst for Ident
SubstIdent ==
    /\ status = "subst"
    /\ template.node = "Ident"
    /\ last' = Substituted(fold_ident(bindings, template))
    /\ status' = IF fold_ident(bindings, template).panic THEN "aborted" ELSE "done"
    /\ UNCHANGED <<inputs, new_id_source, old_to_new, new_to_old, processed_nodes, visit_as,
                   c_types, c_exprs, c_stmts, c_decls, c_decls_top, c_files, merged, minted, popped>>

SubstInit ==
    /\ ast_nodes = EmptyMap /\ type_nodes = EmptyMap /\ top_nodes = <<>>
    /\ file_map = EmptyMap
    /\ template \in ExprTemplates \cup IdentTemplates
    /\ bindings \in SpecBindings
    /\ new_id_source = 0
    /\ old_to_new = EmptyMap
    /\ new_to_old = EmptyMap
    /\ processed_nodes = EmptyMap
    /\ visit_as = <<>>
    /\ c_types = EmptyMap /\ c_exprs = EmptyMap /\ c_stmts = EmptyMap /\ c_decls = EmptyMap
    /\ c_decls_top = {}
    /\ c_files = EmptyMap
    /\ merged = {}
    /\ minted = <<>>
    /\ popped = {}
    /\ last = [step |-> "none", id |-> NoId, ty |-> {}]
    /\ status = "subst"

SubstNext ==
    \/ SubstExpr
    \/ SubstIdent

SubstSpec == SubstInit /\ [][SubstNext]_vars

(***************************************************************************)
(* ResolveSpec: resolve_type_id on a TypedAstContext whose type and        *)
(* declaration stores are drawn from bounded sets (the fields of the       *)
(* context are public, c_ast/mod.rs 32-40): type ids 1 and 2 hold a form   *)
(* or nothing, id 3 is never stored, and declaration id 1 holds a typedef, *)
(* a field or nothing.                                                     *)
(***************************************************************************)
StoredIds == {1, 2}

ResolveIds == StoredIds \cup {3}

WrapKinds == <<"TypeOf", "Decayed", "Elaborated">>

\* form 1 is int; 2..10 are the wrapping forms of the types 1..3; 11 and 12 are
\* the typedef references to the declarations 1 and 2
TypeForms == 1..12

TypeForm(i) ==
    IF i = 1 THEN [k |-> "Int"]
    ELSE IF i <= 10 THEN [k |-> WrapKinds[((i - 2) \div 3) + 1], ty |-> ((i - 2) % 3) + 1]
    ELSE [k |-> "Typedef", decl |-> i - 10]

\* forms 1..3 are the typedefs of the types 1..3; 4 is a field
DeclForms == 1..4

DeclForm(i) ==
    IF i <= 3 THEN [k |-> "Typedef", name |-> "T", typ |-> i]
    ELSE [k |-> "Field", name |-> "f"]

\* a caller resolves a type id of the context, stored or not
ResolveAny ==
    /\ status = "resolve"
    /\ \E typ \in ResolveIds :
           \E res \in {resolve_type_id(typ, 0)} :
               /\ last' = [step |-> "resolve", id |-> typ, ty |-> {}, res |-> res]
               /\ status' = IF res.res = "ok" THEN "done" ELSE "aborted"
    /\ UNCHANGED <<inputs, new_id_source, old_to_new, new_to_old, processed_nodes, visit_as,
                   c_types, c_exprs, c_stmts, c_decls, c_decls_top, c_files, merged, minted, popped>>

ResolveInit ==
    /\ ast_nodes = EmptyMap /\ type_nodes = EmptyMap /\ top_nodes = <<>>
    /\ file_map = EmptyMap
    /\ template = NoTemplate /\ bindings = EmptyMap
    /\ new_id_source = 0
    /\ old_to_new = EmptyMap
    /\ new_to_old = EmptyMap
    /\ processed_nodes = EmptyMap
    /\ visit_as = <<>>
    /\ \E f \in [StoredIds -> {0} \cup TypeForms] :
           c_types = [t \in {x \in StoredIds : f[x] # 0} |-> not_located(TypeForm(f[t]))]
    /\ \E d \in {0} \cup DeclForms :
           c_decls = IF d = 0 THEN EmptyMap ELSE (1 :> located(NullNode, DeclForm(d)))
    /\ c_exprs = EmptyMap /\ c_stmts = EmptyMap
    /\ c_decls_top = {}
    /\ c_files = EmptyMap
    /\ merged = {}
    /\ minted = <<>>
    /\ popped = {}
    /\ last = [step |-> "none", id |-> NoId, ty |-> {}]
    /\ status = "resolve"

ResolveNext == ResolveAny

ResolveSpec == ResolveInit /\ [][ResolveNext]_vars

(***************************************************************************)
(* References held by the stored nodes, by namespace (c_ast/mod.rs)        *)
(***************************************************************************)
SeqSet(s) == {s[i] : i \in 1..Len(s)}

Opt(x) == IF x = NoId THEN {} ELSE {x}

Stored == DOMAIN c_types \cup DOMAIN c_exprs \cup DOMAIN c_stmts \cup DOMAIN c_decls

\* the internal ids that some foreign id resolves to
Bound == {old_to_new[f] : f \in DOMAIN old_to_new}

Refs(t, e, st, d) == [types |-> t, exprs |-> e, stmts |-> st, decls |-> d]

\* the ids a CTypeKind holds
CTypeKindRefs(k) ==
    CASE k.k = "Pointer" -> Refs({k.pointee.ctype}, {}, {}, {})
      [] k.k = "Function" ->
             Refs({k.ret.ctype} \cup {k.params[i].ctype : i \in 1..Len(k.params)}, {}, {}, {})
      [] k.k \in {"TypeOf", "Decayed", "Elaborated"} -> Refs({k.ty}, {}, {}, {})
      [] k.k \in {"Record", "Typedef"} -> Refs({}, {}, {}, {k.decl})
      [] OTHER -> Refs({}, {}, {}, {})

\* the ids a CExprKind holds
CExprKindRefs(k) ==
    CASE k.k = "Literal" -> Refs({k.ty}, {}, {}, {})
      [] k.k = "Unary" -> Refs({k.ty}, {k.operand}, {}, {})
      [] k.k \in {"Binary", "ArraySubscript"} -> Refs({k.ty}, {k.lhs, k.rhs}, {}, {})
      [] k.k = "ImplicitCast" -> Refs({k.ty}, {k.expr}, {}, {})
      [] k.k = "DeclRef" -> Refs({k.ty}, {}, {}, {k.decl})
      [] k.k = "Call" -> Refs({k.ty}, {k.func} \cup SeqSet(k.args), {}, {})
      [] k.k = "Member" -> Refs({k.ty}, {k.base}, {}, {k.field})

\* the ids a CStmtKind holds
CStmtKindRefs(k) ==
    CASE k.k = "Label" -> Refs({}, {}, {k.stmt}, {})
      [] k.k = "Compound" -> Refs({}, {}, SeqSet(k.stmts), {})
      [] k.k = "Expr" -> Refs({}, {k.expr}, {}, {})
      [] k.k = "Empty" -> Refs({}, {}, {}, {})
      [] k.k = "If" ->
             Refs({}, {k.scrutinee}, {k.true_variant} \cup Opt(k.false_variant), {})
      [] k.k \in {"While", "DoWhile"} -> Refs({}, {k.condition}, {k.body}, {})
      [] k.k = "ForLoop" ->
             Refs({}, Opt(k.condition) \cup Opt(k.increment), Opt(k.init) \cup {k.body}, {})
      [] k.k = "Goto" -> Refs({}, {}, {k.label}, {})
      [] k.k = "Return" -> Refs({}, Opt(k.expr), {}, {})
      [] k.k = "Decls" -> Refs({}, {}, {}, SeqSet(k.decls))

\* the ids a CDeclKind holds
CDeclKindRefs(k) ==
    CASE k.k = "Function" -> Refs({k.typ}, {}, {k.body}, SeqSet(k.parameters))
      [] k.k = "Variable" -> Refs({k.typ.ctype}, Opt(k.initializer), {}, {})
      [] k.k = "Typedef" -> Refs({k.typ}, {}, {}, {})
      [] k.k = "Record" -> Refs({}, {}, {}, SeqSet(k.fields))
      [] k.k = "Field" -> Refs({}, {}, {}, {})

\* every reference held by a stored node, with the namespace it points into
AllRefs ==
    {CTypeKindRefs(c_types[i].kind) : i \in DOMAIN c_types}
    \cup {CExprKindRefs(c_exprs[i].kind) : i \in DOMAIN c_exprs}
    \cup {CStmtKindRefs(c_stmts[i].kind) : i \in DOMAIN c_stmts}
    \cup {CDeclKindRefs(c_decls[i].kind) : i \in DOMAIN c_decls}

(***************************************************************************)
(* Claims                                                                  *)
(***************************************************************************)

\* C1: identifier resolution is stable: once a foreign id f resolves to the
\* internal id n, every later lookup of f gives n, whatever mapper operations
\* happen in between.
C1_StableResolution ==
    [][\A f \in DOMAIN old_to_new :
           f \in DOMAIN old_to_new' /\ old_to_new'[f] = old_to_new[f]]_vars

\* C2: namespace disjointness: no internal id is a key of more than one of
\* c_types, c_exprs, c_stmts, c_decls.
C2_NamespaceDisjoint ==
    /\ DOMAIN c_types \cap DOMAIN c_exprs = {}
    /\ DOMAIN c_types \cap DOMAIN c_stmts = {}
    /\ DOMAIN c_types \cap DOMAIN c_decls = {}
    /\ DOMAIN c_exprs \cap DOMAIN c_stmts = {}
    /\ DOMAIN c_exprs \cap DOMAIN c_decls = {}
    /\ DOMAIN c_stmts \cap DOMAIN c_decls = {}

\* a finished run that filled all four maps, with a lifted expression and an
\* alias among the statements
C2_Witness ==
    /\ status = "done"
    /\ DOMAIN c_types # {} /\ DOMAIN c_exprs # {} /\ DOMAIN c_decls # {}
    /\ \E s \in DOMAIN c_stmts : c_stmts[s].kind.k = "Expr"
    /\ merged # {}

\* C3: alias transparency: when merge_old(A, B) succeeds it returns lookup(A)
\* and lookup(B) == lookup(A), and at the end of the conversion both foreign
\* ids resolve to the single typed node stored at that internal id.
C3_AliasTransparency ==
    /\ [][\A m \in merged' \ merged :
              old_to_new'[m[1]] = m[3] /\ old_to_new'[m[2]] = m[3]]_vars
    /\ [](status = "done" =>
              \A m \in merged :
                  /\ old_to_new[m[1]] = old_to_new[m[2]]
                  /\ old_to_new[m[1]] \in Stored)

\* the tags of the builders that end in expr_possibly_as_stmt
ExprTags ==
    LiteralTags \cup {"TagUnaryOperator", "TagImplicitCastExpr", "TagCallExpr",
                      "TagMemberExpr", "TagBinaryOperator", "TagDeclRefExpr",
                      "TagArraySubscriptExpr"}

\* the CExprKind variant each of them builds
ExprKindOfTag(tag) ==
    CASE tag \in LiteralTags -> "Literal"
      [] tag = "TagUnaryOperator" -> "Unary"
      [] tag = "TagImplicitCastExpr" -> "ImplicitCast"
      [] tag = "TagCallExpr" -> "Call"
      [] tag = "TagMemberExpr" -> "Member"
      [] tag = "TagBinaryOperator" -> "Binary"
      [] tag = "TagDeclRefExpr" -> "DeclRef"
      [] tag = "TagArraySubscriptExpr" -> "ArraySubscript"

\* the next iteration visits an expression-tagged node under a statement mask
LiftPending ==
    /\ status = "running" /\ visit_as # <<>>
    /\ ~IsProcessed(PoppedId)
    /\ PoppedId \in DOMAIN ast_nodes
    /\ ast_nodes[PoppedId].tag \in ExprTags
    /\ Meets(PoppedTy, STMT) /\ ~Meets(PoppedTy, TYPE)

\* the wrapper at n refers to a synthetic expression
WrapperOk(n, stmts, exprs, o2n) ==
    /\ n \in DOMAIN stmts
    /\ stmts[n].kind.k = "Expr"
    /\ stmts[n].kind.expr # n
    /\ stmts[n].kind.expr \in DOMAIN exprs
    /\ \A f \in DOMAIN o2n : o2n[f] # stmts[n].kind.expr

\* C4: expression-as-statement lifting: converting an expression-tagged node f
\* under a Statement mask stores at lookup(f) a wrapper Expr(e), with e freshly
\* minted, e # lookup(f), e a key of c_exprs holding the expression payload,
\* and no foreign id mapping to e, then or later.
C4_Lifting ==
    /\ [][(LiftPending /\ last'.step = "visit") =>
              LET n == old_to_new'[PoppedId]
              IN  /\ WrapperOk(n, c_stmts', c_exprs', old_to_new')
                  /\ c_stmts'[n].kind.expr > new_id_source
                  /\ c_stmts'[n].kind.expr \notin DOMAIN c_exprs
                  /\ c_exprs'[c_stmts'[n].kind.expr].kind.k
                         = ExprKindOfTag(ast_nodes[PoppedId].tag)]_vars
    /\ [](\A n \in DOMAIN c_stmts :
              c_stmts[n].kind.k = "Expr" => WrapperOk(n, c_stmts, c_exprs, old_to_new))

\* the last iteration lifted an expression into a statement
C4_Witness ==
    /\ last.step = "visit"
    /\ last.id \in DOMAIN ast_nodes
    /\ ast_nodes[last.id].tag \in ExprTags
    /\ Meets(last.ty, STMT)
    /\ c_stmts[old_to_new[last.id]].kind.k = "Expr"

\* the state convert starts from
AtStart == status = "running" /\ last.step = "none"

TopInAst == SelectSeq(top_nodes, LAMBDA t : t \in DOMAIN ast_nodes)

C6_TopSound ==
    \A n \in c_decls_top :
        /\ \E t \in TopSet \cap DOMAIN old_to_new : old_to_new[t] = n
        /\ \A f \in DOMAIN old_to_new : old_to_new[f] = n => f \in TopSet

\* C7: no dangling references at completion: every id referenced from a
\* stored node is a key of the store map of the matching namespace.
C7_NoDangling ==
    status = "done" =>
        \A r \in AllRefs :
            /\ r.types \subseteq DOMAIN c_types
            /\ r.exprs \subseteq DOMAIN c_exprs
            /\ r.stmts \subseteq DOMAIN c_stmts
            /\ r.decls \subseteq DOMAIN c_decls

\* a stored node is kept as it is
Kept(m, mNext) == \A i \in DOMAIN m : i \in DOMAIN mNext /\ mNext[i] = m[i]

\* the popped entry asks for a node that is already stored, in a map its mask admits
RequestOfStored ==
    /\ status = "running" /\ visit_as # <<>>
    /\ PoppedId \in DOMAIN old_to_new
    /\ \/ old_to_new[PoppedId] \in DOMAIN c_types /\ Meets(PoppedTy, TYPE)
       \/ old_to_new[PoppedId] \in DOMAIN c_exprs /\ Meets(PoppedTy, EXPR)
       \/ old_to_new[PoppedId] \in DOMAIN c_stmts /\ Meets(PoppedTy, STMT)
       \/ old_to_new[PoppedId] \in DOMAIN c_decls /\ Meets(PoppedTy, DECL)

\* C8: create-once: no stored node is ever overwritten, and a request for an
\* already converted node inserts no node, mints no id and pushes no entry.
C8_CreateOnce ==
    [][/\ Kept(c_types, c_types') /\ Kept(c_exprs, c_exprs')
       /\ Kept(c_stmts, c_stmts') /\ Kept(c_decls, c_decls')
       /\ (RequestOfStored /\ status' = "running") =>
              /\ new_id_source' = new_id_source
              /\ visit_as' = Front(visit_as)
              /\ <<c_types', c_exprs', c_stmts', c_decls'>>
                     = <<c_types, c_exprs, c_stmts, c_decls>>]_vars

\* C9: termination: convert eventually stops (the worklist empties or the run
\* aborts), also on graphs with cycles.
C9_Terminates == <>(status # "running")

\* C10: already-classified check: a popped entry whose internal id is already
\* classified is skipped with nothing but the worklist changed when the kinds
\* meet, and aborts the conversion when they do not.
C10_ClassifiedCheck ==
    [][(status = "running" /\ visit_as # <<>> /\ IsProcessed(PoppedId)) =>
           IF Meets(ProcessedTy(PoppedId), PoppedTy)
           THEN /\ visit_as' = Front(visit_as)
                /\ status' = "running"
                /\ UNCHANGED <<new_id_source, old_to_new, new_to_old, processed_nodes,
                               c_types, c_exprs, c_stmts, c_decls, c_decls_top>>
           ELSE status' = "aborted"]_vars

\* an entry was skipped, and entries were left on the worklist
C10_Witness ==
    /\ last.step = "skip"
    /\ visit_as # <<>>
    /\ Meets(ProcessedTy(last.id), last.ty)

\* the next iteration visits a node whose tag no builder accepts under the
\* mask of the popped entry
NoBuilderPending ==
    /\ status = "running" /\ visit_as # <<>>
    /\ ~IsProcessed(PoppedId)
    /\ IF Meets(PoppedTy, TYPE)
       THEN PoppedId \in DOMAIN type_nodes
            /\ ~HasTypeBuilder(type_nodes[PoppedId].tag, PoppedTy)
       ELSE PoppedId \in DOMAIN ast_nodes
            /\ ~HasAstBuilder(ast_nodes[PoppedId].tag, PoppedTy)

\* C11: unsupported tags are non-fatal: when no builder applies to the popped
\* entry's AST node or type node under the requested mask, nothing is stored
\* for the node, the run does not abort, and the conversion goes on with the
\* remaining worklist entries.
C11_UnsupportedNonFatal ==
    [][NoBuilderPending =>
           /\ status' = "running"
           /\ visit_as' = Front(visit_as)
           /\ <<c_types', c_exprs', c_stmts', c_decls'>>
                  = <<c_types, c_exprs, c_stmts, c_decls>>]_vars

\* the type form at t is one the resolver looks through
IsTransparent(t) ==
    t \in DOMAIN c_types /\ c_types[t].kind.k \in {"TypeOf", "Decayed", "Elaborated", "Typedef"}

\* the type a transparent form stands for (a typedef reference: the type of
\* its typedef declaration), if there is one
TransparentNext(t) ==
    IF ~IsTransparent(t) THEN {}
    ELSE IF c_types[t].kind.k # "Typedef" THEN {c_types[t].kind.ty}
    ELSE {c_decls[d].kind.typ :
              d \in {x \in {c_types[t].kind.decl} \cap DOMAIN c_decls :
                         c_decls[x].kind.k = "Typedef"}}

\* the chain of type ids that starts at t; <<>> if it runs into a cycle
RECURSIVE Chain(_, _)
Chain(t, path) ==
    IF t \in SeqSet(path) THEN <<>>
    ELSE IF TransparentNext(t) = {} THEN Append(path, t)
    ELSE Chain(CHOOSE x \in TransparentNext(t) : TRUE, Append(path, t))

\* the chain from t is finite, acyclic and ends in a stored non-transparent type
ChainEnds(t) ==
    /\ Chain(t, <<>>) # <<>>
    /\ Last(Chain(t, <<>>)) \in DOMAIN c_types
    /\ ~IsTransparent(Last(Chain(t, <<>>)))

\* C12: type alias resolution: for a finite acyclic chain of transparent type
\* forms (type-of, decayed, elaborated, typedef reference through its typedef
\* declaration) that ends in a non-transparent type p, resolve_type_id of the
\* head returns p's id; of a non-transparent type id it returns that id.
C12_ResolveChain ==
    (last.step = "resolve" /\ ChainEnds(last.id)) =>
        last.res = Resolved("ok", Last(Chain(last.id, <<>>)))

\* a chain of four transparent forms, a typedef reference among them, resolved
C12_Witness ==
    /\ last.step = "resolve"
    /\ ChainEnds(last.id)
    /\ Len(Chain(last.id, <<>>)) = 5
    /\ \E i \in 1..4 : c_types[Chain(last.id, <<>>)[i]].kind.k = "Typedef"
    /\ last.res.res = "ok"

\* C13: the file-id map is carried through unchanged: after a completed
\* conversion the output context's c_files equals the input's file-id-to-path
\* map.
C13_FilesCarried == status = "done" => c_files = file_map

\* C14: the correspondence table is bidirectional: after get_or_create_new(f)
\* returns n, get_old(n) returns f.
C14_Bidirectional ==
    last.step = "get_or_create_new" => get_old(CurCtx, last.res) = last.id

\* C15: merge_old(existing, new) with an unknown `existing` foreign id binds
\* nothing: it returns None and leaves old_to_new, new_to_old and the id
\* counter as they were; `new` keeps the binding it had, or none.
C15_MergeUnknown ==
    [][(last'.step = "merge_old" /\ last'.id \notin DOMAIN old_to_new) =>
           /\ last'.res = NoId
           /\ UNCHANGED <<old_to_new, new_to_old, new_id_source>>]_vars

\* merge_old returned None for an unknown id and an `other` that is bound
C15_Witness ==
    /\ last.step = "merge_old"
    /\ last.id \notin DOMAIN old_to_new
    /\ last.res = NoId
    /\ last.other \in DOMAIN old_to_new

\* the foreign ids tied to one of S by a chain of merge_old calls that bound
RECURSIVE AliasClass(_)
AliasClass(S) ==
    LET more == {m[2] : m \in {x \in merged : x[1] \in S}}
                    \cup {m[1] : m \in {x \in merged : x[2] \in S}}
    IN  IF more \subseteq S THEN S ELSE AliasClass(S \cup more)

\* C16: internal ids are never reused: every id fresh_id returns (for a
\* synthetic node or for a foreign id seen first) differs from every id minted
\* before; two foreign ids that were never aliased to each other never share
\* an internal id; an id minted for no foreign id is never the image of a
\* foreign id and has no get_old entry.
C16_NeverReused ==
    /\ \A i, j \in 1..Len(minted) : i < j => minted[i][1] # minted[j][1]
    /\ \A f, g \in DOMAIN old_to_new :
           (f # g /\ old_to_new[f] = old_to_new[g]) => g \in AliasClass({f})
    /\ \A i \in 1..Len(minted) :
           minted[i][2] = NoId =>
               /\ \A f \in DOMAIN old_to_new : old_to_new[f] # minted[i][1]
               /\ get_old(CurCtx, minted[i][1]) = NoId

\* three ids minted, a synthetic one between two made for foreign ids, and two
\* aliased foreign ids sharing an id
C16_Witness ==
    /\ Len(minted) = 3
    /\ minted[1][2] # NoId /\ minted[2][2] = NoId /\ minted[3][2] # NoId
    /\ \E f, g \in DOMAIN old_to_new : f # g /\ old_to_new[f] = old_to_new[g]

\* the last iteration built the node of C, the child of the parenthesization
\* node P, at the id the visit of P gave to both
ParenConverted(P, C) ==
    /\ last.step = "visit" /\ last.id = C
    /\ P \in DOMAIN ast_nodes /\ C \in DOMAIN ast_nodes
    /\ ast_nodes[P].tag = "TagParenExpr" /\ ast_nodes[P].children = <<C>>
    /\ ast_nodes[C].tag # "TagParenExpr"
    /\ HasAstBuilder(ast_nodes[C].tag, last.ty)
    /\ <<P, C, old_to_new[C]>> \in merged

\* the maps that hold a node at the internal id n
StoresOf(n) ==
    {x \in {"types", "exprs", "stmts", "decls"} :
        n \in DOMAIN (CASE x = "types" -> c_types [] x = "exprs" -> c_exprs
                        [] x = "stmts" -> c_stmts [] x = "decls" -> c_decls)}

\* C17: parenthesization collapsing: once a parenthesization node P with child
\* C is converted under a mask and C is convertible under it, lookup(P) =
\* lookup(C), exactly one typed node exists for the pair (the node built from
\* C; none of its own for P), and a later request for P under a compatible
\* mask is skipped as already converted.
C17_ParenCollapse ==
    \A P \in DOMAIN ast_nodes, C \in DOMAIN ast_nodes :
        ParenConverted(P, C) =>
            /\ old_to_new[P] = old_to_new[C]
            /\ Cardinality(StoresOf(old_to_new[C])) = 1
            /\ \A i \in 1..Len(minted) :
                   (minted[i][2] \in {P, C} /\ minted[i][1] # old_to_new[C]) =>
                       StoresOf(minted[i][1]) = {}
            /\ IsProcessed(P) /\ Meets(ProcessedTy(P), last.ty)

\* the Function declarations of the output
FunctionDecls == {d \in DOMAIN c_decls : c_decls[d].kind.k = "Function"}

\* the body of the function at d is a Compound of one Return of the literal 0
\* of a type that resolves to Int
ReturnsZero(d) ==
    LET body == c_decls[d].kind.body
    IN  /\ body \in DOMAIN c_stmts
        /\ c_stmts[body].kind.k = "Compound"
        /\ Len(c_stmts[body].kind.stmts) = 1
        /\ LET ret == c_stmts[body].kind.stmts[1]
           IN  /\ ret \in DOMAIN c_stmts
               /\ c_stmts[ret].kind.k = "Return"
               /\ c_stmts[ret].kind.expr \in DOMAIN c_exprs
               /\ LET e == c_exprs[c_stmts[ret].kind.expr].kind
                  IN  /\ e.k = "Literal"
                      /\ e.lit = [k |-> "Integer", v |-> 0]
                      /\ resolve_type(e.ty).res = "ok"
                      /\ resolve_type(e.ty).ty.kind.k = "Int"

\* C18: the graph of `int main() { return 0; }` converts without abort to
\* exactly one Function declaration, named main, without parameters, in the
\* top-level set, whose body resolves to a Compound with exactly one child, a
\* Return(Some(e)) with e a Literal(t, Integer(0)) and resolve_type(t) Int.
C18_MainScenario ==
    (ast_nodes = MainProgram /\ top_nodes = <<Ids.fn>>) =>
        /\ status \in {"running", "done"}
        /\ status = "done" =>
               /\ Cardinality(FunctionDecls) = 1
               /\ \A d \in FunctionDecls :
                      /\ c_decls[d].kind.name = "main"
                      /\ c_decls[d].kind.parameters = <<>>
                      /\ d \in c_decls_top
                      /\ ReturnsZero(d)

\* the conversion of `int main() { return 0; }` has returned
C18_Witness ==
    /\ ast_nodes = MainProgram /\ top_nodes = <<Ids.fn>>
    /\ status = "done"
    /\ FunctionDecls # {}

\* C19: label references point at labels: after a conversion that completes
\* without abort, for every stored Goto(l), if l is a key of c_stmts then the
\* statement stored at l is a Label.
C19_GotoLabels ==
    status = "done" =>
        \A g \in DOMAIN c_stmts :
            (c_stmts[g].kind.k = "Goto" /\ c_stmts[g].kind.label \in DOMAIN c_stmts) =>
                c_stmts[c_stmts[g].kind.label].kind.k = "Label"

\* the declarations stored among ds are all of the variant k
DeclsAre(ds, k) == \A d \in ds \cap DOMAIN c_decls : c_decls[d].kind.k = k

\* C20: variant-restricted references: after a conversion that completes
\* without abort, a stored d of a Record(d) type is a Record declaration, a
\* stored d of a Typedef(d) type is a Typedef declaration, the stored
\* parameters of a Function declaration are Variable declarations, the stored
\* fields of a Record declaration are Field declarations, and the stored type
\* of a Function declaration is a Function type.
C20_VariantRefs ==
    status = "done" =>
        /\ \A t \in DOMAIN c_types :
               /\ c_types[t].kind.k = "Record" => DeclsAre({c_types[t].kind.decl}, "Record")
               /\ c_types[t].kind.k = "Typedef" => DeclsAre({c_types[t].kind.decl}, "Typedef")
        /\ \A d \in DOMAIN c_decls :
               /\ c_decls[d].kind.k = "Function" =>
                      /\ DeclsAre(SeqSet(c_decls[d].kind.parameters), "Variable")
                      /\ c_decls[d].kind.typ \in DOMAIN c_types =>
                             c_types[c_decls[d].kind.typ].kind.k = "Function"
               /\ c_decls[d].kind.k = "Record" =>
                      DeclsAre(SeqSet(c_decls[d].kind.fields), "Field")


(***************************************************************************)
(* C21: substitution tries a placeholder at several levels.  For a         *)
(* template expression that is the placeholder name x: when the bindings   *)
(* hold an expression for x the result is that expression; when they hold  *)
(* a path for x the result is the path expression of that path; when they  *)
(* hold an ident for x the result is the path expression of that one       *)
(* ident; and when x is absent from the bindings the result is the         *)
(* template itself.                                                        *)
(***************************************************************************)
ExprPlaceholder ==
    /\ last.step = "subst"
    /\ template.node = "Expr"
    /\ template.kind = "Path"
    /\ Len(template.path.segments) = 1

PlaceholderName == template.path.segments[1].name

BoundAs(ty) == PlaceholderName \in DOMAIN bindings /\ bindings[PlaceholderName].ty = ty

C21_MultiLevel ==
    ExprPlaceholder =>
        /\ BoundAs("Expr") =>
               last.res = [panic |-> FALSE, node |-> bindings[PlaceholderName].val]
        /\ BoundAs("Path") =>
               last.res = [panic |-> FALSE,
                           node |-> [template EXCEPT !.path = bindings[PlaceholderName].val]]
        /\ BoundAs("Ident") =>
               last.res = [panic |-> FALSE,
                           node |-> [template EXCEPT
                                        !.path.segments = <<bindings[PlaceholderName].val>>]]
        /\ PlaceholderName \notin DOMAIN bindings =>
               last.res = [panic |-> FALSE, node |-> template]

C21_Witness ==
    /\ ExprPlaceholder
    /\ BoundAs("Path")
    /\ last.res.node.path = bindings[PlaceholderName].val


(***************************************************************************)
(* C22: aliasing direction of a parenthesization.  When the node P with    *)
(* child C is processed and C already had an internal id n, afterwards     *)
(* lookup(C) is still n and lookup(P) = n.                                 *)
(***************************************************************************)
\* the next iteration visits the parenthesization node P, whose child C has an internal id
ParenOverBound(P, C) ==
    /\ last'.step = "visit" /\ last'.id = P
    /\ P \in DOMAIN ast_nodes
    /\ ast_nodes[P].tag = "TagParenExpr" /\ ast_nodes[P].children = <<C>>
    /\ Meets(last'.ty, EXPR \cup STMT)
    /\ C \in DOMAIN old_to_new

C22_AliasDirection ==
    [][\A P \in DOMAIN ast_nodes, C \in DOMAIN old_to_new :
          ParenOverBound(P, C) =>
              /\ old_to_new'[C] = old_to_new[C]
              /\ old_to_new'[P] = old_to_new[C]]_vars


(***************************************************************************)
(* C23: incompatible roles always abort.  When one run takes the same      *)
(* foreign node under two masks, the node is convertible under one of      *)
(* them, and the kind it is classified as has no bit in common with the    *)
(* other, the run aborts, whichever of the two entries is taken first: no  *)
(* finished run has taken such a pair of entries.                          *)
(***************************************************************************)
\* the masks of the category of each map that holds the internal id i
CategoriesOf(i) ==
    {m \in {TYPE, EXPR, STMT, DECL} :
        i \in DOMAIN (CASE m = TYPE -> c_types [] m = EXPR -> c_exprs
                        [] m = STMT -> c_stmts [] m = DECL -> c_decls)}

\* the foreign AST node n was built under the mask m1 it was taken with, and neither the
\* kind recorded for it nor the category it is stored in has a bit in common with m2
IncompatibleRoles(n, m1, m2) ==
    /\ n \in DOMAIN ast_nodes /\ n \in DOMAIN old_to_new
    /\ ast_nodes[n].tag # "TagParenExpr"
    /\ ~Meets(m1, TYPE) /\ ~Meets(m2, TYPE)
    /\ HasAstBuilder(ast_nodes[n].tag, m1)
    /\ CategoriesOf(old_to_new[n]) # {}
    /\ \A m \in CategoriesOf(old_to_new[n]) : ~Meets(m, m2)
    /\ old_to_new[n] \in DOMAIN processed_nodes => ~Meets(processed_nodes[old_to_new[n]], m2)

C23_IncompatibleAbort ==
    status = "done" =>
        \A r1 \in popped, r2 \in popped :
            r1[1] = r2[1] => ~IncompatibleRoles(r1[1], r1[2], r2[2])


(***************************************************************************)
(* C24: visited-map completeness.  After each iteration of the worklist    *)
(* that finishes, every internal id that is a key of one of the four       *)
(* store maps is a key of processed_nodes, and the kind recorded for it    *)
(* belongs to the category of the map that holds the node.                 *)
(***************************************************************************)
RecordedIn(store, category) ==
    \A i \in DOMAIN store :
        /\ i \in DOMAIN processed_nodes
        /\ processed_nodes[i] # {}
        /\ processed_nodes[i] \subseteq category

C24_VisitedComplete ==
    status \in {"running", "done"} =>
        /\ RecordedIn(c_types, TYPE)
        /\ RecordedIn(c_exprs, EXPR)
        /\ RecordedIn(c_stmts, STMT)
        /\ RecordedIn(c_decls, DECL)


(***************************************************************************)
(* C25: qualifiers come from the referenced type node.  In every stored    *)
(* qualified type (the pointee of a pointer, the return and parameter      *)
(* types of a function type, the type of a variable declaration) the const *)
(* qualifier equals the constant flag of the foreign type node whose id is *)
(* referenced, not that of the node that holds the reference.              *)
(***************************************************************************)
\* the qualified type q refers to the foreign type node t and carries its constant flag
QualifiedAs(q, t) ==
    /\ t \in DOMAIN type_nodes
    /\ q.qualifiers.is_const = type_nodes[t].constant

PointeeQualified ==
    \A t \in DOMAIN type_nodes \cap DOMAIN old_to_new :
        (/\ type_nodes[t].tag = "TagPointer"
         /\ old_to_new[t] \in DOMAIN c_types
         /\ c_types[old_to_new[t]].kind.k = "Pointer")
        => QualifiedAs(c_types[old_to_new[t]].kind.pointee, type_nodes[t].extras[1].v)

SignatureQualified ==
    \A t \in DOMAIN type_nodes \cap DOMAIN old_to_new :
        (/\ type_nodes[t].tag = "TagFunctionType"
         /\ old_to_new[t] \in DOMAIN c_types
         /\ c_types[old_to_new[t]].kind.k = "Function")
        => LET args == type_nodes[t].extras[1].v
               kind == c_types[old_to_new[t]].kind
           IN  /\ QualifiedAs(kind.ret, args[1].v)
               /\ \A i \in 1..Len(kind.params) : QualifiedAs(kind.params[i], args[i + 1].v)

VariableQualified ==
    \A n \in DOMAIN ast_nodes \cap DOMAIN old_to_new :
        (/\ ast_nodes[n].tag = "TagVarDecl"
         /\ old_to_new[n] \in DOMAIN c_decls
         /\ c_decls[old_to_new[n]].kind.k = "Variable")
        => QualifiedAs(c_decls[old_to_new[n]].kind.typ, ast_nodes[n].type_id)

C25_QualifiersOfReferenced ==
    PointeeQualified /\ SignatureQualified /\ VariableQualified


(***************************************************************************)
(* C26: function type split.  When a function type node whose argument    *)
(* list is [r, p1, .., pk] (k >= 0, every id a type node of the input) is  *)
(* built, the stored type is Function(ret, params) with ret.ctype =        *)
(* lookup(r) and params[i].ctype = lookup(p_i) in the same order, and      *)
(* every listed id is requested under the Type mask; an empty argument     *)
(* list aborts the conversion.                                             *)
(***************************************************************************)
\* the iteration that ends in the next state took the function type node t
FunctionTypeTaken(t) ==
    /\ last'.step \in {"visit", "panic"} /\ last'.id = t
    /\ Meets(last'.ty, FUNC_TYPE)
    /\ type_nodes[t].tag = "TagFunctionType"
    /\ Len(type_nodes[t].extras) = 1 /\ type_nodes[t].extras[1].t = "array"

\* the foreign ids the argument list of t names
ArgumentIds(t) ==
    [i \in 1..Len(type_nodes[t].extras[1].v) |-> type_nodes[t].extras[1].v[i].v]

C26_FunctionTypeSplit ==
    [][\A t \in DOMAIN type_nodes :
          FunctionTypeTaken(t) =>
              IF ArgumentIds(t) = <<>> THEN status' = "aborted"
              ELSE (\A i \in 1..Len(ArgumentIds(t)) : ArgumentIds(t)[i] \in DOMAIN type_nodes)
                   => /\ status' = "running"
                      /\ old_to_new'[t] \in DOMAIN c_types'
                      /\ LET kind == c_types'[old_to_new'[t]].kind
                             args == ArgumentIds(t)
                         IN  /\ kind.k = "Function"
                             /\ kind.ret.ctype = old_to_new'[args[1]]
                             /\ Len(kind.params) = Len(args) - 1
                             /\ \A i \in 1..Len(kind.params) :
                                    kind.params[i].ctype = old_to_new'[args[i + 1]]
                             /\ \A i \in 1..Len(args) :
                                    \E j \in 1..Len(visit_as') : visit_as'[j] = <<args[i], TYPE>>
      ]_vars

\* the function type int(int *const, double) was built in the last iteration
C26_Witness ==
    /\ last.step = "visit" /\ last.id = Ids.fnty2
    /\ old_to_new[Ids.fnty2] \in DOMAIN c_types
    /\ Len(c_types[old_to_new[Ids.fnty2]].kind.params) = 2


(***************************************************************************)
(* C27: optional children are represented as absence.  An absent           *)
(* else-branch of an if statement, absent init, condition or increment of  *)
(* a for statement, an absent return expression and an absent variable     *)
(* initializer each yield None in the stored node, push no worklist entry  *)
(* for the slot, and do not abort the conversion.                          *)
(***************************************************************************)
\* the iteration that ends in the next state ran the builder of the AST node n
BuilderTaken(n) ==
    /\ last'.step \in {"visit", "panic"} /\ last'.id = n
    /\ ~Meets(last'.ty, TYPE)
    /\ HasAstBuilder(ast_nodes[n].tag, last'.ty)

\* the entries that iteration pushed
Pushed == SubSeq(visit_as', Len(visit_as), Len(visit_as'))

\* the child slots (from 1) a builder may find absent, and those it needs
OptionalSlots(tag) ==
    CASE tag = "TagIfStmt" -> {3}
      [] tag = "TagForStmt" -> {1, 2, 3}
      [] tag \in {"TagReturnStmt", "TagVarDecl"} -> {1}
      [] OTHER -> {}

PresentSlots(node) == {i \in 1..Len(node.children) : node.children[i] # NoId}

\* nothing but the optional slots of the node is absent
OnlyOptionalAbsent(node) ==
    /\ Len(node.children) = SlotArity[node.tag]
    /\ (1..Len(node.children)) \ PresentSlots(node) \subseteq OptionalSlots(node.tag)
    /\ node.tag = "TagVarDecl" =>
           /\ node.type_id \in DOMAIN type_nodes
           /\ Len(node.extras) >= 1 /\ node.extras[1].t = "str"

\* what the node stored for n holds in its optional slot i, in the next state
OptionalField(n, i) ==
    LET tag == ast_nodes[n].tag
        id == old_to_new'[n]
    IN  CASE tag = "TagIfStmt" -> c_stmts'[id].kind.false_variant
          [] tag = "TagForStmt" ->
                 (CASE i = 1 -> c_stmts'[id].kind.init
                    [] i = 2 -> c_stmts'[id].kind.condition
                    [] i = 3 -> c_stmts'[id].kind.increment)
          [] tag = "TagReturnStmt" -> c_stmts'[id].kind.expr
          [] tag = "TagVarDecl" -> c_decls'[id].kind.initializer

C27_OptionalChildren ==
    [][\A n \in DOMAIN ast_nodes :
          (/\ BuilderTaken(n)
           /\ OptionalSlots(ast_nodes[n].tag) # {}
           /\ OnlyOptionalAbsent(ast_nodes[n]))
          => /\ status' = "running"
             /\ \A i \in OptionalSlots(ast_nodes[n].tag) \ PresentSlots(ast_nodes[n]) :
                    OptionalField(n, i) = NoId
             /\ Len(Pushed) = Cardinality(PresentSlots(ast_nodes[n]))
                                  + (IF ast_nodes[n].tag = "TagVarDecl" THEN 1 ELSE 0)
      ]_vars

\* for (;;) with a body was built in the last iteration
C27_Witness ==
    /\ last.step = "visit" /\ last.id \in DOMAIN ast_nodes
    /\ ast_nodes[last.id].tag = "TagForStmt"
    /\ PresentSlots(ast_nodes[last.id]) = {4}
    /\ c_stmts[old_to_new[last.id]].kind.k = "ForLoop"
    /\ c_stmts[old_to_new[last.id]].kind.condition = NoId
    /\ status = "running"


(***************************************************************************)
(* C28: missing required children abort.  When the builder of a node finds *)
(* a required child reference absent (the condition or then-branch of an   *)
(* if; the body of a for, while or do and the condition of a while or do;  *)
(* the target of a label or goto; an operand of a unary, binary, cast,     *)
(* call, member or subscript expression; the function body; an element of  *)
(* a compound, declaration group, record or parameter list), or a required *)
(* type reference absent, or a foreign node missing from the input maps,   *)
(* the conversion aborts and the iteration stores no node.                 *)
(***************************************************************************)
\* the child slots (from 1) the builder of a tag needs
RequiredSlots(node) ==
    CASE node.tag \in {"TagIfStmt", "TagWhileStmt", "TagDoStmt", "TagBinaryOperator",
                       "TagMemberExpr", "TagArraySubscriptExpr"} -> {1, 2}
      [] node.tag = "TagForStmt" -> {4}
      [] node.tag \in {"TagLabelStmt", "TagGotoStmt", "TagUnaryOperator",
                       "TagImplicitCastExpr"} -> {1}
      [] node.tag \in {"TagCallExpr", "TagFunctionDecl"} -> 1..Len(node.children) \cup {1}
      [] node.tag \in {"TagCompoundStmt", "TagDeclStmt", "TagRecordDecl"} ->
             1..Len(node.children)
      [] OTHER -> {}

RequiredChildAbsent(node) ==
    \E i \in RequiredSlots(node) : i > Len(node.children) \/ node.children[i] = NoId

RequiredTypeAbsent(node) ==
    /\ node.tag \in ExprTags \cup {"TagFunctionDecl", "TagTypedefDecl", "TagVarDecl"}
    /\ \/ node.type_id = NoId
       \/ node.tag = "TagVarDecl" /\ node.type_id \notin DOMAIN type_nodes

\* the iteration that ends in the next state took an id that the map it is looked up in
\* does not hold, or a function type that lists such an id
MissingNodeTaken ==
    /\ last'.step \in {"visit", "panic"}
    /\ IF Meets(last'.ty, TYPE)
       THEN \/ last'.id \notin DOMAIN type_nodes
            \/ /\ FunctionTypeTaken(last'.id)
               /\ \E i \in 1..Len(ArgumentIds(last'.id)) :
                      ArgumentIds(last'.id)[i] \notin DOMAIN type_nodes
       ELSE last'.id \notin DOMAIN ast_nodes

AbortedWithoutStore ==
    /\ status' = "aborted"
    /\ UNCHANGED <<c_types, c_exprs, c_stmts, c_decls>>

ListTags == {"TagCompoundStmt", "TagDeclStmt", "TagRecordDecl", "TagCallExpr"}

\* the call expression built for n: at n's id, or behind the statement that wraps it
CallBuilt(n) ==
    IF Meets(last'.ty, STMT)
    THEN c_exprs'[c_stmts'[old_to_new'[n]].kind.expr].kind
    ELSE c_exprs'[old_to_new'[n]].kind

\* the list the node stored for n holds, in the next state
StoredList(n) ==
    LET tag == ast_nodes[n].tag
        id == old_to_new'[n]
    IN  CASE tag = "TagCompoundStmt" -> c_stmts'[id].kind.stmts
          [] tag = "TagDeclStmt" -> c_stmts'[id].kind.decls
          [] tag = "TagRecordDecl" -> c_decls'[id].kind.fields
          [] tag = "TagCallExpr" -> <<CallBuilt(n).func>> \o CallBuilt(n).args

C29_OrderedLists ==
    [][\A n \in DOMAIN ast_nodes :
          (/\ BuilderTaken(n) /\ last'.step = "visit"
           /\ ast_nodes[n].tag \in ListTags)
          => /\ Len(StoredList(n)) = Len(ast_nodes[n].children)
             /\ \A i \in 1..Len(ast_nodes[n].children) :
                    /\ ast_nodes[n].children[i] \in DOMAIN old_to_new'
                    /\ StoredList(n)[i] = old_to_new'[ast_nodes[n].children[i]]
      ]_vars

\* a call of a callee with two arguments was built in the last iteration
C29_Witness ==
    /\ last.step = "visit" /\ last.id \in DOMAIN ast_nodes
    /\ ast_nodes[last.id].tag = "TagCallExpr"
    /\ Len(ast_nodes[last.id].children) = 3
    /\ old_to_new[last.id] \in DOMAIN c_stmts
    /\ c_stmts[old_to_new[last.id]].kind.k = "Expr"
    /\ Len(c_exprs[c_stmts[old_to_new[last.id]].kind.expr].kind.args) = 2


(***************************************************************************)
(* C30: function declaration layout.  When a function declaration with     *)
(* children [c1, .., ck, b] is built, the stored Function has body =       *)
(* lookup(b), requested under the Statement mask, and parameters =         *)
(* [lookup(c1), .., lookup(ck)] in order, each requested under the         *)
(* variable-declaration mask, and its type is requested under the          *)
(* function-type mask; an empty child list or an absent last child aborts  *)
(* the conversion.                                                         *)
(***************************************************************************)
WasPushed(entry) == \E j \in 1..Len(Pushed) : Pushed[j] = entry

C30_FunctionLayout ==
    [][\A n \in DOMAIN ast_nodes :
          (BuilderTaken(n) /\ ast_nodes[n].tag = "TagFunctionDecl")
          => LET children == ast_nodes[n].children
                 k == Len(children) - 1
             IN  IF children = <<>> \/ children[Len(children)] = NoId
                 THEN status' = "aborted"
                 ELSE last'.step = "visit"
                      => LET fn == c_decls'[old_to_new'[n]].kind
                         IN  /\ fn.k = "Function"
                             /\ fn.body = old_to_new'[children[k + 1]]
                             /\ WasPushed(<<children[k + 1], STMT>>)
                             /\ Len(fn.parameters) = k
                             /\ \A i \in 1..k :
                                    /\ fn.parameters[i] = old_to_new'[children[i]]
                                    /\ WasPushed(<<children[i], VAR_DECL>>)
                             /\ fn.typ = old_to_new'[ast_nodes[n].type_id]
                             /\ WasPushed(<<ast_nodes[n].type_id, FUNC_TYPE>>)
      ]_vars

\* a function with one parameter and a body was built in the last iteration
C30_Witness ==
    /\ last.step = "visit" /\ last.id \in DOMAIN ast_nodes
    /\ ast_nodes[last.id].tag = "TagFunctionDecl"
    /\ Len(ast_nodes[last.id].children) = 2
    /\ old_to_new[last.id] \in DOMAIN c_decls
    /\ Len(c_decls[old_to_new[last.id]].kind.parameters) = 1
    /\ c_decls[old_to_new[last.id]].kind.body = old_to_new[ast_nodes[last.id].children[2]]


(***************************************************************************)
(* C31: requests return ids synchronously and defer work.                  *)
(* visit_node_type(f, mask) pushes exactly the entry (f, mask), returns    *)
(* lookup_or_create(f) and builds no node, so builders that reference the  *)
(* same foreign id f at different times get, and store, the same internal  *)
(* id for it: a request for f after any later iteration returns what a     *)
(* request for an already known f returns now.                             *)
(***************************************************************************)
RequestIds == DOMAIN ast_nodes \cup DOMAIN type_nodes \cup {Ids.missing}

RequestMasks == {TYPE, EXPR, STMT, DECL, LABEL_STMT, VAR_DECL, FUNC_TYPE}

\* the request pushes one entry, returns lookup_or_create(f) and leaves the stores alone
RequestDefers(f, mask) ==
    LET c == visit_node_type(CurCtx, f, mask)
    IN  /\ c.work = Append(visit_as, <<f, mask>>)
        /\ c.ret = IF f \in DOMAIN old_to_new THEN old_to_new[f] ELSE new_id_source + 1
        /\ c.o2n = Insert(old_to_new, f, c.ret)
        /\ c.types = c_types /\ c.exprs = c_exprs /\ c.stmts = c_stmts /\ c.decls = c_decls
        /\ c.proc = processed_nodes /\ ~c.panic

\* a request for the known id f after the next iteration returns what one returns now
RequestRepeats(f, mask) ==
    f \in DOMAIN old_to_new =>
        visit_node_type(CurCtx', f, mask).ret = visit_node_type(CurCtx, f, mask).ret

C31_RequestsDefer ==
    [][\A f \in RequestIds, mask \in RequestMasks :
          RequestDefers(f, mask) /\ RequestRepeats(f, mask)]_vars


(***************************************************************************)
(* C32: expression context needs no wrapper.  When an expression-tagged    *)
(* foreign node f is converted under the Expression mask, the expression   *)
(* is stored in c_exprs at lookup(f), no statement is stored at lookup(f), *)
(* no synthetic id is minted, and lookup(f) is classified as Expression.   *)
(***************************************************************************)
\* the next iteration visits an expression-tagged node under the Expression mask
PlainPending ==
    /\ status = "running" /\ visit_as # <<>>
    /\ ~IsProcessed(PoppedId)
    /\ PoppedId \in DOMAIN ast_nodes
    /\ ast_nodes[PoppedId].tag \in ExprTags
    /\ Meets(PoppedTy, EXPR) /\ ~Meets(PoppedTy, STMT) /\ ~Meets(PoppedTy, TYPE)

\* the ids minted without a foreign id
Synthetic(m) == {m[i][1] : i \in {j \in DOMAIN m : m[j][2] = NoId}}

C32_PlainExpression ==
    [][(PlainPending /\ last'.step = "visit") =>
          LET n == old_to_new'[PoppedId]
          IN  /\ n = old_to_new[PoppedId]
              /\ n \in DOMAIN c_exprs'
              /\ c_exprs'[n].kind.k = ExprKindOfTag(ast_nodes[PoppedId].tag)
              /\ n \notin DOMAIN c_stmts'
              /\ c_stmts' = c_stmts
              /\ Synthetic(minted') = Synthetic(minted)
              /\ DOMAIN c_exprs' = DOMAIN c_exprs \cup {n}
              /\ processed_nodes'[n] = EXPR]_vars

\* the last iteration converted an expression under the Expression mask
C32_Witness ==
    /\ last.step = "visit"
    /\ last.id \in DOMAIN ast_nodes
    /\ ast_nodes[last.id].tag \in ExprTags
    /\ Meets(last.ty, EXPR) /\ ~Meets(last.ty, STMT)
    /\ old_to_new[last.id] \in DOMAIN c_exprs
    /\ old_to_new[last.id] \notin DOMAIN c_stmts


(***************************************************************************)
(* C33: wrong-shaped extra fields abort.  Whenever a builder reads an      *)
(* extra field of a foreign node or type node and the payload is not of    *)
(* the expected kind (string, unsigned integer, float, bool, list), the    *)
(* conversion aborts and stores no node built from a default or an absent  *)
(* value.                                                                  *)
(***************************************************************************)
\* the payload kinds the builder of a tag expects of extras[0], extras[1], ...
ExpectedExtras(tag) ==
    CASE tag \in {"TagIntegerLiteral", "TagCharacterLiteral"} -> <<"u64">>
      [] tag = "TagFloatingLiteral" -> <<"f64">>
      [] tag = "TagUnaryOperator" -> <<"str", "bool">>
      [] tag \in {"TagBinaryOperator", "TagFunctionDecl", "TagTypedefDecl", "TagVarDecl",
                  "TagRecordDecl", "TagFieldDecl"} -> <<"str">>
      [] tag \in {"TagPointer", "TagRecordType", "TagTypedefType", "TagTypeOfType",
                  "TagDecayedType", "TagElaboratedType"} -> <<"u64">>
      [] tag = "TagFunctionType" -> <<"array">>
      [] OTHER -> <<>>

\* an extra field the builder of the node reads holds a payload of another kind
WrongShaped(node) ==
    \E i \in 1..Len(ExpectedExtras(node.tag)) :
        /\ i <= Len(node.extras)
        /\ node.extras[i].t # ExpectedExtras(node.tag)[i]

\* the iteration ran the builder of type node t
TypeBuilderTaken(t) ==
    /\ last'.step \in {"visit", "panic"} /\ last'.id = t
    /\ Meets(last'.ty, TYPE)
    /\ HasTypeBuilder(type_nodes[t].tag, last'.ty)

C33_WrongShapeAborts ==
    [][/\ \A n \in DOMAIN ast_nodes :
              (BuilderTaken(n) /\ WrongShaped(ast_nodes[n])) => AbortedWithoutStore
       /\ \A t \in DOMAIN type_nodes :
              (TypeBuilderTaken(t) /\ WrongShaped(type_nodes[t])) => AbortedWithoutStore]_vars


(***************************************************************************)
(* C34: operator decoding.  A unary or binary operator node whose operator *)
(* string is in the supported set is stored with the corresponding value   *)
(* of the operator enumeration, the mapping being injective on the         *)
(* supported strings; an operator string outside the set aborts the        *)
(* conversion without storing the node.                                    *)
(***************************************************************************)
OperatorTags == {"TagUnaryOperator", "TagBinaryOperator"}

SupportedStrings(tag) == IF tag = "TagUnaryOperator" THEN UnOpStrings ELSE BinOpStrings

OperatorOf(tag, str) == IF tag = "TagUnaryOperator" THEN UnOpOf(str) ELSE BinOpOf(str)

\* the iteration ran the builder of the operator node n, whose extras[0] is a string
OperatorTaken(n) ==
    /\ ast_nodes[n].tag \in OperatorTags
    /\ BuilderTaken(n)
    /\ ExtraIs(ast_nodes[n], 0, "str")

\* the expression that iteration stored for n: under a statement mask the payload
\* of the wrapper at lookup(n), else the expression at lookup(n)
StoredOperator(n) ==
    LET i == old_to_new'[n]
    IN  IF Meets(last'.ty, STMT) THEN c_exprs'[c_stmts'[i].kind.expr] ELSE c_exprs'[i]

Injective(op(_), strings) == \A s1, s2 \in strings : op(s1) = op(s2) => s1 = s2

C34_OperatorDecoding ==
    /\ [](Injective(UnOpOf, UnOpStrings) /\ Injective(BinOpOf, BinOpStrings))
    /\ [][\A n \in DOMAIN ast_nodes :
              OperatorTaken(n) =>
                  LET tag == ast_nodes[n].tag
                      str == Extra(ast_nodes[n], 0).v
                  IN  /\ (str \in SupportedStrings(tag) /\ last'.step = "visit")
                             => /\ StoredOperator(n).kind.k = ExprKindOfTag(tag)
                                /\ StoredOperator(n).kind.op = OperatorOf(tag, str)
                      /\ str \notin SupportedStrings(tag) => AbortedWithoutStore]_vars

\* the last iteration stored an operator node with its decoded operator
C34_Witness ==
    /\ last.step = "visit"
    /\ last.id \in DOMAIN ast_nodes
    /\ ast_nodes[last.id].tag \in OperatorTags
    /\ Meets(last.ty, STMT)
    /\ c_exprs[c_stmts[old_to_new[last.id]].kind.expr].kind.op
           = OperatorOf(ast_nodes[last.id].tag, Extra(ast_nodes[last.id], 0).v)


(***************************************************************************)
(* C35: alias resolution failure modes.  resolve_type_id aborts when the   *)
(* given type id, or a type or declaration id reached while chasing        *)
(* transparent forms, is absent from the store, and when a typedef         *)
(* reference points at a stored declaration that is not a Typedef; it      *)
(* never modifies the store.                                               *)
(***************************************************************************)
\* the type ids the chase from the ids in `seen` comes to
RECURSIVE Chased(_)
Chased(seen) ==
    LET more == UNION {TransparentNext(x) : x \in seen}
    IN  IF more \subseteq seen THEN seen ELSE Chased(seen \cup more)

\* the type id x is not stored
AbsentType(x) == x \notin DOMAIN c_types

\* x is a typedef reference whose declaration is not stored
AbsentDecl(x) ==
    /\ x \in DOMAIN c_types /\ c_types[x].kind.k = "Typedef"
    /\ c_types[x].kind.decl \notin DOMAIN c_decls

\* x is a typedef reference to a stored declaration that is not a Typedef
NotATypedef(x) ==
    /\ x \in DOMAIN c_types /\ c_types[x].kind.k = "Typedef"
    /\ c_types[x].kind.decl \in DOMAIN c_decls
    /\ c_decls[c_types[x].kind.decl].kind.k # "Typedef"

C35_ResolveFailures ==
    /\ [](last.step = "resolve" =>
              ((\E x \in Chased({last.id}) : AbsentType(x) \/ AbsentDecl(x) \/ NotATypedef(x))
                   => last.res.res = "panic"))
    /\ [][last'.step = "resolve" =>
              UNCHANGED <<c_types, c_exprs, c_stmts, c_decls, c_decls_top, c_files>>]_vars

\* a resolution that chased a wrapping form to a typedef reference whose stored
\* declaration is a field, and aborted
C35_Witness ==
    /\ last.step = "resolve"
    /\ last.res.res = "panic"
    /\ ~NotATypedef(last.id)
    /\ \E x \in Chased({last.id}) : NotATypedef(x)


(***************************************************************************)
(* C36: ident-level substitution error.  When a template ident is a        *)
(* placeholder name for which the bindings hold a value that is not an     *)
(* ident, ident-level substitution is a fatal error; when the bindings     *)
(* hold an ident it is substituted; when the bindings hold nothing for the *)
(* name the ident is left unchanged.                                       *)
(***************************************************************************)
\* fold_ident was applied to the template, an ident
IdentPlaceholder == last.step = "subst" /\ template.node = "Ident"

\* the bindings hold a value of type ty for the template's name
IdentBoundAs(types) ==
    template.name \in DOMAIN bindings /\ bindings[template.name].ty \in types

C36_IdentError ==
    IdentPlaceholder =>
        /\ IdentBoundAs({"Path", "Expr", "Stmt"}) => last.res.panic /\ status = "aborted"
        /\ IdentBoundAs({"Ident"}) =>
               last.res = [panic |-> FALSE, node |-> bindings[template.name].val]
        /\ template.name \notin DOMAIN bindings =>
               last.res = [panic |-> FALSE, node |-> template]

\* an ident whose name is bound to an expression was folded, and the fold failed
C36_Witness ==
    /\ IdentPlaceholder
    /\ IdentBoundAs({"Expr"})
    /\ last.res.panic


(***************************************************************************)
(* C37: top-level ids are backed by declarations.  When convert returns    *)
(* without abort, every internal id in the output's top-level set          *)
(* c_decls_top is a key of c_decls.                                        *)
(***************************************************************************)
C37_TopBacked == status = "done" => c_decls_top \subseteq DOMAIN c_decls


(***************************************************************************)
(* C38: resolve_type_id is idempotent and lands on a non-transparent form. *)
(* Whenever resolve_type_id(t) returns r, the type stored at r is not      *)
(* TypeOf, Decayed, Elaborated or Typedef, and resolve_type_id(r) = r.     *)
(***************************************************************************)
C38_ResolveIdempotent ==
    (last.step = "resolve" /\ last.res.res = "ok") =>
        /\ last.res.id \in DOMAIN c_types
        /\ c_types[last.res.id].kind.k \notin {"TypeOf", "Decayed", "Elaborated", "Typedef"}
        /\ resolve_type_id(last.res.id, 0) = Resolved("ok", last.res.id)

\* a resolution that went through a typedef declaration and returned another id
C38_Witness ==
    /\ last.step = "resolve"
    /\ last.res.res = "ok"
    /\ last.res.id # last.id
    /\ \E x \in Chased({last.id}) : x \in DOMAIN c_types /\ c_types[x].kind.k = "Typedef"

=============================================================================
